---- MODULE Spec2Model ----
(***************************************************************************)
(* A model of crayons: the ColoredString text proxy, its rendering, the    *)
(* color functions, random(), and the two process-wide globals             *)
(* DISABLE_COLOR and REPLACE_COLORS.                                       *)
(*                                                                         *)
(* Text is a sequence of one-character strings; the byte \x1b is the       *)
(* character "ESC" and a line feed is "LF".  Color names are texts too, so *)
(* that str.upper() and str.lower() are computed character by character.   *)
(***************************************************************************)
EXTENDS Integers, Sequences, FiniteSets, TLC

VARIABLES
    DISABLE_COLOR,   \* module global: "unset" (never assigned), "True", "False"
    REPLACE_COLORS,  \* module global: dict from color name to color name
    environ,         \* os.environ restricted to CLINT_FORCE_COLOR and TERM
    isatty,          \* what sys.stdout.isatty() answers
    get_ipython,     \* whether the caller's globals hold get_ipython
    vals,            \* the ColoredString objects the caller holds
    last             \* the last call made and what it returned or raised

vars == <<DISABLE_COLOR, REPLACE_COLORS, environ, isatty, get_ipython, vals, last>>

globals == <<DISABLE_COLOR, REPLACE_COLORS, environ, isatty, get_ipython>>

(***************************************************************************)
(* Bounds of the model.                                                    *)
(***************************************************************************)
MaxLen == 2

MaxRepeat == 2

(***************************************************************************)
(* Characters and text.                                                    *)
(***************************************************************************)
ESC == "ESC"

LF == "LF"

Digits == {"0", "1", "2", "3", "4", "5", "6", "7", "8", "9"}

Lowers ==
    <<"a", "b", "c", "d", "e", "f", "g", "h", "i", "j", "k", "l", "m",
      "n", "o", "p", "q", "r", "s", "t", "u", "v", "w", "x", "y", "z">>

Uppers ==
    <<"A", "B", "C", "D", "E", "F", "G", "H", "I", "J", "K", "L", "M",
      "N", "O", "P", "Q", "R", "S", "T", "U", "V", "W", "X", "Y", "Z">>

UpperChar(c) ==
    IF \E i \in 1..26 : Lowers[i] = c
    THEN Uppers[CHOOSE i \in 1..26 : Lowers[i] = c]
    ELSE c

LowerChar(c) ==
    IF \E i \in 1..26 : Uppers[i] = c
    THEN Lowers[CHOOSE i \in 1..26 : Uppers[i] = c]
    ELSE c

\* str.upper() and str.lower()
Upper(t) == [i \in 1..Len(t) |-> UpperChar(t[i])]

Lower(t) == [i \in 1..Len(t) |-> LowerChar(t[i])]

RECURSIVE Concat(_)
\* "".join(ts) for a sequence of texts
Concat(ts) ==
    IF ts = <<>> THEN <<>>
    ELSE IF Len(ts) = 1 THEN ts[1]
    ELSE LET half == Len(ts) \div 2
         IN  Concat(SubSeq(ts, 1, half)) \o Concat(SubSeq(ts, half + 1, Len(ts)))

RECURSIVE Repeat(_, _)
\* str * int
Repeat(t, n) == IF n <= 0 THEN <<>> ELSE t \o Repeat(t, n - 1)

(***************************************************************************)
(* The color and style tables.                                             *)
(***************************************************************************)
BLACK == <<"B", "L", "A", "C", "K">>
RED == <<"R", "E", "D">>
GREEN == <<"G", "R", "E", "E", "N">>
YELLOW == <<"Y", "E", "L", "L", "O", "W">>
BLUE == <<"B", "L", "U", "E">>
MAGENTA == <<"M", "A", "G", "E", "N", "T", "A">>
CYAN == <<"C", "Y", "A", "N">>
WHITE == <<"W", "H", "I", "T", "E">>
RESET == <<"R", "E", "S", "E", "T">>
LIGHT == <<"L", "I", "G", "H", "T">>
EX == <<"_", "E", "X">>

SGR(digits) == <<ESC, "[">> \o digits \o <<"m">>

FORE_COLORS ==
    (BLACK :> SGR(<<"3", "0">>)) @@ (RED :> SGR(<<"3", "1">>))
    @@ (GREEN :> SGR(<<"3", "2">>)) @@ (YELLOW :> SGR(<<"3", "3">>))
    @@ (BLUE :> SGR(<<"3", "4">>)) @@ (MAGENTA :> SGR(<<"3", "5">>))
    @@ (CYAN :> SGR(<<"3", "6">>)) @@ (WHITE :> SGR(<<"3", "7">>))
    @@ (RESET :> SGR(<<"3", "9">>))
    @@ ((LIGHT \o BLACK \o EX) :> SGR(<<"9", "0">>))
    @@ ((LIGHT \o RED \o EX) :> SGR(<<"9", "1">>))
    @@ ((LIGHT \o GREEN \o EX) :> SGR(<<"9", "2">>))
    @@ ((LIGHT \o YELLOW \o EX) :> SGR(<<"9", "3">>))
    @@ ((LIGHT \o BLUE \o EX) :> SGR(<<"9", "4">>))
    @@ ((LIGHT \o MAGENTA \o EX) :> SGR(<<"9", "5">>))
    @@ ((LIGHT \o CYAN \o EX) :> SGR(<<"9", "6">>))
    @@ ((LIGHT \o WHITE \o EX) :> SGR(<<"9", "7">>))

STYLES ==
    [name \in {"BRIGHT", "DIM", "NORMAL", "RESET_ALL"} |->
        CASE name = "BRIGHT" -> SGR(<<"1">>)
          [] name = "DIM" -> SGR(<<"2">>)
          [] name = "NORMAL" -> SGR(<<"2", "2">>)
          [] name = "RESET_ALL" -> SGR(<<"0">>)]

\* the sixteen lower-case names random() chooses among
COLORS ==
    {Lower(BLACK), Lower(BLUE), Lower(CYAN), Lower(GREEN),
     Lower(LIGHT \o BLACK \o EX), Lower(LIGHT \o BLUE \o EX),
     Lower(LIGHT \o CYAN \o EX), Lower(LIGHT \o GREEN \o EX),
     Lower(LIGHT \o MAGENTA \o EX), Lower(LIGHT \o RED \o EX),
     Lower(LIGHT \o WHITE \o EX), Lower(LIGHT \o YELLOW \o EX),
     Lower(MAGENTA), Lower(RED), Lower(WHITE), Lower(YELLOW)}

(***************************************************************************)
(* Source objects (StrInterpolable and the objects that violate it).       *)
(* kind "str": a str holding text; "int": an int holding num; "bytes": a   *)
(* bytes object whose UTF-8 decoding is text; "BadReturnType": __str__     *)
(* returns a non-str; "RaisingStr": __str__ raises exc; "NoStr": looking   *)
(* up __str__ raises AttributeError.                                       *)
(***************************************************************************)
Obj(kind, text, num, exc) == [kind |-> kind, text |-> text, num |-> num, exc |-> exc]

StrObj(text) == Obj("str", text, 0, "")

IntObj(n) == Obj("int", <<>>, n, "")

BytesObj(text) == Obj("bytes", text, 0, "")

\* collections.UserString(text)
UserString(text) == Obj("UserString", text, 0, "")

\* a UserString subclass with methods of its own
TestString(text) == Obj("TestString", text, 0, "")

BadReturnType == Obj("BadReturnType", <<>>, 0, "")

RaisingStr(exc) == Obj("RaisingStr", <<>>, 0, exc)

NoStr == Obj("NoStr", <<>>, 0, "AttributeError")

DigitChars == <<"0", "1", "2", "3", "4", "5", "6", "7", "8", "9">>

RECURSIVE IntStr(_)
\* int.__str__ for n >= 0
IntStr(n) ==
    IF n < 10 THEN <<DigitChars[n + 1]>>
    ELSE IntStr(n \div 10) \o <<DigitChars[(n % 10) + 1]>>

\* s.__str__(): what it raises ("" when it returns), whether it returns a
\* str, and the text of that str
DunderStr(s) ==
    CASE s.kind = "str" -> [raises |-> "", isstr |-> TRUE, text |-> s.text]
      [] s.kind = "int" -> [raises |-> "", isstr |-> TRUE, text |-> IntStr(s.num)]
      [] s.kind = "bytes" ->
            [raises |-> "", isstr |-> TRUE,
             text |-> <<"b", "'">> \o s.text \o <<"'">>]
      [] s.kind \in {"UserString", "TestString"} ->
            [raises |-> "", isstr |-> TRUE, text |-> s.text]
      [] s.kind = "BadReturnType" -> [raises |-> "", isstr |-> FALSE, text |-> <<>>]
      [] OTHER -> [raises |-> s.exc, isstr |-> FALSE, text |-> <<>>]

\* str(s) for a source that construction accepted
Str(s) == DunderStr(s).text

(***************************************************************************)
(* Outcomes of a call: a returned ColoredString, a returned plain value,   *)
(* or a raised exception.                                                  *)
(***************************************************************************)
Returned(v) == [tag |-> "ColoredString", val |-> v]

Plain(type, x) == [tag |-> type, val |-> x]

Raised(exc, arg) == [tag |-> "raise", exc |-> exc, arg |-> arg]

not_str_msg == "Failed to convert input to string.\n"

(***************************************************************************)
(* ColoredString.__init__                                                  *)
(***************************************************************************)
None == "None"

\* environ.get(name, None)
EnvGet(name) == IF name \in DOMAIN environ THEN environ[name] ELSE None

\* bool(x) for x a str or None
Truthy(x) == x \notin {None, ""}

\* dict.get(k, default)
DictGet(d, k, default) == IF k \in DOMAIN d THEN d[k] ELSE default

\* the try block of __init__: what converting the source raises, or None
SourceError(s) ==
    LET r == DunderStr(s) IN
    IF r.raises \in {"NotImplementedError", "AttributeError", "TypeError"}
    THEN Raised("TypeError", not_str_msg)
    ELSE IF r.raises # "" THEN Raised(r.raises, "")
    ELSE IF ~r.isstr THEN Raised("TypeError", not_str_msg)
    ELSE Plain("None", None)

\* attributes stored without a look at CLINT_FORCE_COLOR
StoredAsGiven(color, s, always_color, bold) ==
    [s |-> IF s.kind = "bytes" THEN StrObj(s.text) ELSE s,
     color |-> DictGet(REPLACE_COLORS, color, color),
     always_color |-> always_color,
     bold |-> bold]

\* the attributes __init__ stores
Stored(color, s, always_color, bold) ==
    [s |-> IF s.kind = "bytes" THEN StrObj(s.text) ELSE s,
     color |-> DictGet(REPLACE_COLORS, color, color),
     always_color |->
        IF Truthy(EnvGet("CLINT_FORCE_COLOR")) THEN TRUE ELSE always_color,
     bold |-> bold]

\* a constructor that converts the source before it looks at the color
ColoredStringSourceFirst(color, s, always_color, bold) ==
    IF SourceError(s).tag = "raise" THEN SourceError(s)
    ELSE IF Upper(color) \notin DOMAIN FORE_COLORS THEN Raised("KeyError", color)
    ELSE Returned(Stored(color, s, always_color, bold))

\* a constructor whose try block catches every exception
ColoredStringCatchAll(color, s, always_color, bold) ==
    IF Upper(color) \notin DOMAIN FORE_COLORS THEN Raised("KeyError", color)
    ELSE IF SourceError(s).tag = "raise" THEN Raised("TypeError", not_str_msg)
    ELSE Returned(Stored(color, s, always_color, bold))

\* a constructor that does not look the color up in REPLACE_COLORS
ColoredStringNoReplace(color, s, always_color, bold) ==
    IF Upper(color) \notin DOMAIN FORE_COLORS THEN Raised("KeyError", color)
    ELSE IF SourceError(s).tag = "raise" THEN SourceError(s)
    ELSE Returned([Stored(color, s, always_color, bold) EXCEPT !.color = color])

\* ColoredString.__init__: the value constructed, or the exception raised
ColoredString(color, s, always_color, bold) ==
    IF Upper(color) \notin DOMAIN FORE_COLORS THEN Raised("KeyError", color)
    ELSE IF SourceError(s).tag = "raise" THEN SourceError(s)
    ELSE Returned(Stored(color, s, always_color, bold))

\* ColoredString._new
_new(self, s) == ColoredString(self.color, s, self.always_color, self.bold)

(***************************************************************************)
(* Rendering.                                                              *)
(***************************************************************************)
RECURSIVE DigitsEnd(_, _)
\* the first position at or after k that holds no digit
DigitsEnd(t, k) ==
    IF k <= Len(t) /\ t[k] \in Digits THEN DigitsEnd(t, k + 1) ELSE k

\* \x1b\[[0-9]+m at position i: the position after it, or 0
SeqEnd(t, i) ==
    IF i >= 1 /\ i + 3 <= Len(t) /\ t[i] = ESC /\ t[i + 1] = "[" /\ t[i + 2] \in Digits
    THEN LET k == DigitsEnd(t, i + 2)
         IN  IF k <= Len(t) /\ t[k] = "m" THEN k + 1 ELSE 0
    ELSE 0

\* (?:\x1b\[[0-9]+m){2} at position i: the position after it, or 0
Seq2End(t, i) ==
    LET e == SeqEnd(t, i) IN IF e = 0 THEN 0 ELSE SeqEnd(t, e)

\* the position of the first character of chars at or after i, or Len(t) + 1
NextOf(t, i, chars) ==
    LET at == {j \in i..Len(t) : t[j] \in chars}
    IN  IF at = {} THEN Len(t) + 1 ELSE CHOOSE j \in at : \A k \in at : j <= k

\* the position of the first line feed at or after k, or Len(t) + 1
LineEnd(t, k) == NextOf(t, k, {LF})

\* _ANSI_ESCAPE_REGEX matched at position i: the position after the match,
\* or 0.  The middle part must begin with a character that is neither ESC
\* nor a line feed and is greedy, so the match ends with the last pair of
\* sequences on the line.
MatchEnd(t, i) ==
    LET j == Seq2End(t, i) IN
    IF j = 0 \/ j > Len(t) \/ t[j] \in {ESC, LF}
    THEN 0
    ELSE LET ks == {k \in (j + 1)..LineEnd(t, j) : Seq2End(t, k) # 0}
         IN  IF ks = {} THEN 0
             ELSE Seq2End(t, CHOOSE k \in ks : \A k2 \in ks : k2 <= k)

RECURSIVE RegexSub(_, _, _)
\* _ANSI_ESCAPE_REGEX.sub(format_match, t) from position i on: every match
\* is kept and followed by ins; a match starts with ESC
RegexSub(t, i, ins) ==
    IF i > Len(t) THEN <<>>
    ELSE LET e == MatchEnd(t, i) IN
         IF e # 0
         THEN SubSeq(t, i, e - 1) \o ins \o RegexSub(t, e, ins)
         ELSE LET j == NextOf(t, i + 1, {ESC})
              IN  SubSeq(t, i, j - 1) \o RegexSub(t, j, ins)

(***************************************************************************)
(* clean: _STRIP.sub("", s).  "CSI" is the character \x9b.                 *)
(***************************************************************************)
CSI == "CSI"

\* [0-?]
ParameterBytes == Digits \cup {":", ";", "<", "=", ">", "?"}

\* [ -\/]
IntermediateBytes ==
    {" ", "!", "DQUOTE", "#", "$", "%", "&", "'", "(", ")", "*", "+", ",", "-", ".", "/"}

\* [@-~]
FinalBytes ==
    {"@", "[", "BACKSLASH", "]", "^", "_", "BACKTICK", "{", "|", "}", "~"}
    \cup {Lowers[i] : i \in 1..26} \cup {Uppers[i] : i \in 1..26}

RECURSIVE SkipBytes(_, _, _)
\* the first position at or after k whose character is not in class
SkipBytes(t, k, class) ==
    IF k <= Len(t) /\ t[k] \in class THEN SkipBytes(t, k + 1, class) ELSE k

\* a pattern without the one-character introducer \x9b
StripEndEscOnly(t, i) ==
    LET start == IF t[i] = ESC /\ i < Len(t) /\ t[i + 1] = "[" THEN i + 2 ELSE 0
    IN  IF start = 0 THEN 0
        ELSE LET k == SkipBytes(t, SkipBytes(t, start, ParameterBytes), IntermediateBytes)
             IN  IF k <= Len(t) /\ t[k] \in FinalBytes THEN k + 1 ELSE 0

\* _STRIP matched at position i: the position after the match, or 0
StripEnd(t, i) ==
    LET start == IF t[i] = CSI THEN i + 1
                 ELSE IF t[i] = ESC /\ i < Len(t) /\ t[i + 1] = "[" THEN i + 2
                 ELSE 0
    IN  IF start = 0 THEN 0
        ELSE LET k == SkipBytes(t, SkipBytes(t, start, ParameterBytes), IntermediateBytes)
             IN  IF k <= Len(t) /\ t[k] \in FinalBytes THEN k + 1 ELSE 0

RECURSIVE CleanFrom(_, _)
\* t from position i on without the matches of _STRIP, found left to right;
\* a match starts with ESC or CSI
CleanFrom(t, i) ==
    IF i > Len(t) THEN <<>>
    ELSE LET e == StripEnd(t, i) IN
         IF e # 0 THEN CleanFrom(t, e)
         ELSE LET j == NextOf(t, i + 1, {ESC, CSI})
              IN  SubSeq(t, i, j - 1) \o CleanFrom(t, j)

\* a substitution that removes the first match only
clean_first(s) ==
    LET at == {i \in 1..Len(s) : StripEnd(s, i) # 0} IN
    IF at = {} THEN s
    ELSE LET i == CHOOSE i \in at : \A k \in at : i <= k
         IN  SubSeq(s, 1, i - 1) \o SubSeq(s, StripEnd(s, i), Len(s))

\* crayons.clean
clean(s) == CleanFrom(s, 1)

\* crayons._should_default_disable_color
should_default_disable_color == get_ipython \/ EnvGet("TERM") = "dumb"

\* a flag that is taken as not disabled while it is unset
module_getattr_no_default == DISABLE_COLOR = "True"

\* crayons.__getattr__("DISABLE_COLOR")
module_getattr ==
    IF DISABLE_COLOR # "unset" THEN DISABLE_COLOR = "True"
    ELSE should_default_disable_color

\* a rendering that resets the fore color before the intensity
color_str_reset_first(self) ==
    IF Upper(self.color) \notin DOMAIN FORE_COLORS
    THEN Raised("KeyError", Upper(self.color))
    ELSE LET style == IF self.bold THEN "BRIGHT" ELSE "NORMAL"
             fore == FORE_COLORS[Upper(self.color)]
             c == fore \o STYLES[style]
                  \o RegexSub(Str(self.s), 1, fore \o STYLES[style])
                  \o FORE_COLORS[RESET] \o STYLES["NORMAL"]
         IN  Plain("str", IF self.always_color \/ (isatty /\ ~module_getattr)
                          THEN c ELSE Str(self.s))

\* ColoredString.color_str: the rendered text, or the KeyError of the
\* FORE_COLORS lookup
color_str(self) ==
    IF Upper(self.color) \notin DOMAIN FORE_COLORS
    THEN Raised("KeyError", Upper(self.color))
    ELSE LET style == IF self.bold THEN "BRIGHT" ELSE "NORMAL"
             fore == FORE_COLORS[Upper(self.color)]
             c == fore \o STYLES[style]
                  \o RegexSub(Str(self.s), 1, fore \o STYLES[style])
                  \o STYLES["NORMAL"] \o FORE_COLORS[RESET]
         IN  Plain("str", IF self.always_color \/ (isatty /\ ~module_getattr)
                          THEN c ELSE Str(self.s))

(***************************************************************************)
(* The color functions and random().                                       *)
(***************************************************************************)
\* the function _make_color_function(color) returns
color_func(color, s, always, bold) == ColoredString(color, s, always, bold)

\* a list that ignores the colors argument
all_colors(colors) == COLORS

\* the list random() indexes: the lower-cased names that are in COLORS, or
\* COLORS when there is none
supported_colors(colors) ==
    LET given == {Lower(colors[i]) : i \in 1..Len(colors)} \cap COLORS
    IN  IF given # {} THEN given ELSE COLORS

\* random() when randrange picks pick
random(s, always, bold, colors, pick) == ColoredString(Upper(pick), s, always, bold)

(***************************************************************************)
(* replace_colors                                                          *)
(***************************************************************************)
Dict(items) == [type |-> "dict", items |-> items]

List(items) == [type |-> "list", items |-> items]

EmptyDict == <<>>

RECURSIVE FirstInvalid(_)
\* the first value of the dict that is no color, or "" when all are
FirstInvalid(items) ==
    IF items = <<>> THEN <<>>
    ELSE IF Upper(Head(items)[2]) \notin DOMAIN FORE_COLORS THEN Head(items)[2]
    ELSE FirstInvalid(Tail(items))

RECURSIVE UpperDict(_)
\* {k.upper(): v.upper() for k, v in items}: a later item replaces an earlier
\* one with the same upper-cased key
UpperDict(items) ==
    IF items = <<>> THEN EmptyDict
    ELSE LET k == Upper(items[Len(items)][1])
             v == Upper(items[Len(items)][2])
         IN  (k :> v) @@ UpperDict(SubSeq(items, 1, Len(items) - 1))

\* what replace_colors(replace_dict) raises or returns, and the table after
replace_colors(replace_dict) ==
    IF replace_dict.type # "dict"
    THEN [out |-> Plain("None", None), stderr |-> TRUE, table |-> REPLACE_COLORS]
    ELSE LET invalid == FirstInvalid(replace_dict.items) IN
         IF invalid # <<>>
         THEN [out |-> Raised("KeyError", invalid), stderr |-> FALSE,
               table |-> REPLACE_COLORS]
         ELSE [out |-> Plain("None", None), stderr |-> FALSE,
               table |-> UpperDict(replace_dict.items)]

(***************************************************************************)
(* The str methods ColoredStringABC delegates to, as Python computes them. *)
(***************************************************************************)
Whitespace == {" ", LF, "TAB"}

CharsOf(t) == {t[i] : i \in 1..Len(t)}

RECURSIVE LStrip(_, _)
LStrip(t, cs) == IF t # <<>> /\ Head(t) \in cs THEN LStrip(Tail(t), cs) ELSE t

RECURSIVE RStrip(_, _)
RStrip(t, cs) ==
    IF t # <<>> /\ t[Len(t)] \in cs THEN RStrip(SubSeq(t, 1, Len(t) - 1), cs) ELSE t

\* str.strip(chars); chars is None or a text
PyStrip(t, chars) ==
    LET cs == IF chars = None THEN Whitespace ELSE CharsOf(chars)
    IN  Plain("str", LStrip(RStrip(t, cs), cs))

\* str.__getitem__(i) for an int i
PyGetItem(t, i) ==
    IF i >= Len(t) \/ i < -Len(t)
    THEN Raised("IndexError", "string index out of range")
    ELSE Plain("str", <<t[(IF i < 0 THEN i + Len(t) ELSE i) + 1]>>)

\* a slice bound after Python's adjustment to 0..len
SliceBound(n, b) ==
    LET b1 == IF b < 0 THEN b + n ELSE b
    IN  IF b1 < 0 THEN 0 ELSE IF b1 > n THEN n ELSE b1

\* str.__getitem__(slice(start, stop))
PySlice(t, start, stop) ==
    Plain("str", SubSeq(t, SliceBound(Len(t), start) + 1, SliceBound(Len(t), stop)))

\* whether sub occurs in t at position p (from 1)
OccursAt(t, sub, p) ==
    /\ p >= 1
    /\ p + Len(sub) - 1 <= Len(t)
    /\ SubSeq(t, p, p + Len(sub) - 1) = sub

\* the first position (from 1) at or after from where sub occurs, or 0
FirstAt(t, sub, from) ==
    LET ps == {p \in from..(Len(t) + 1) : OccursAt(t, sub, p)}
    IN  IF ps = {} THEN 0 ELSE CHOOSE p \in ps : \A q \in ps : p <= q

\* str.find(sub)
PyFind(t, sub) == Plain("int", FirstAt(t, sub, 1) - 1)

\* str.partition(sep)
PyPartition(t, sep) ==
    IF sep = <<>> THEN Raised("ValueError", "empty separator")
    ELSE LET p == FirstAt(t, sep, 1) IN
         IF p = 0 THEN Plain("tuple", <<t, <<>>, <<>>>>)
         ELSE Plain("tuple", <<SubSeq(t, 1, p - 1), sep,
                               SubSeq(t, p + Len(sep), Len(t))>>)

RECURSIVE SplitFrom(_, _, _)
SplitFrom(t, sep, from) ==
    LET p == FirstAt(t, sep, from) IN
    IF p = 0 THEN <<SubSeq(t, from, Len(t))>>
    ELSE <<SubSeq(t, from, p - 1)>> \o SplitFrom(t, sep, p + Len(sep))

\* str.split(sep) for a text sep
PySplit(t, sep) ==
    IF sep = <<>> THEN Raised("ValueError", "empty separator")
    ELSE Plain("list", SplitFrom(t, sep, 1))

(***************************************************************************)
(* str.format.  A positional or keyword argument is a str, or the tuple    *)
(* or dict of strs that ColoredStringABC.format passes on.                 *)
(***************************************************************************)
FmtStr(text) == [type |-> "str", text |-> text, items |-> <<>>]

FmtTuple(items) == [type |-> "tuple", text |-> <<>>, items |-> items]

FmtDict(items) == [type |-> "dict", text |-> <<>>, items |-> items]

\* repr(s) of a str without quotes or backslashes
ReprStr(t) == <<"'">> \o t \o <<"'">>

RECURSIVE JoinComma(_)
\* ", ".join(ts)
JoinComma(ts) ==
    IF ts = <<>> THEN <<>>
    ELSE IF Len(ts) = 1 THEN ts[1]
    ELSE ts[1] \o <<",", " ">> \o JoinComma(Tail(ts))

\* format(x, ""): str(x)
FormatValue(x) ==
    CASE x.type = "str" -> x.text
      [] x.type = "tuple" ->
            IF Len(x.items) = 1 THEN <<"(">> \o ReprStr(x.items[1].text) \o <<",", ")">>
            ELSE <<"(">> \o JoinComma([i \in 1..Len(x.items) |-> ReprStr(x.items[i].text)])
                 \o <<")">>
      [] x.type = "dict" ->
            <<"{">>
            \o JoinComma([i \in 1..Len(x.items) |->
                    ReprStr(x.items[i][1]) \o <<":", " ">> \o ReprStr(x.items[i][2].text)])
            \o <<"}">>

\* the first position at or after i that holds "}", or 0
ClosingBrace(t, i) ==
    LET ps == {p \in i..Len(t) : t[p] = "}"}
    IN  IF ps = {} THEN 0 ELSE CHOOSE p \in ps : \A q \in ps : p <= q

IsDigits(f) == f # <<>> /\ \A i \in 1..Len(f) : f[i] \in Digits

RECURSIVE DigitsValue(_)
DigitsValue(f) ==
    IF f = <<>> THEN 0
    ELSE 10 * DigitsValue(SubSeq(f, 1, Len(f) - 1))
         + (CHOOSE d \in 0..9 : DigitChars[d + 1] = f[Len(f)])

\* the value of keyword name among the keyword arguments, as <<value>>, or <<>>
KwGet(kw, name) ==
    LET hits == {i \in 1..Len(kw) : kw[i][1] = name}
    IN  IF hits = {} THEN <<>> ELSE <<kw[CHOOSE i \in hits : TRUE][2]>>

RECURSIVE FormatFrom(_, _, _, _, _)
\* t.format(*pos, **kw) from position i on; auto is the next automatic field
\* number, or -1 once a field was numbered by hand
FormatFrom(t, i, auto, pos, kw) ==
    IF i > Len(t) THEN Plain("str", <<>>)
    ELSE IF t[i] = "{" /\ i < Len(t) /\ t[i + 1] = "{"
    THEN LET rest == FormatFrom(t, i + 2, auto, pos, kw)
         IN  IF rest.tag = "raise" THEN rest ELSE Plain("str", <<"{">> \o rest.val)
    ELSE IF t[i] = "}" /\ i < Len(t) /\ t[i + 1] = "}"
    THEN LET rest == FormatFrom(t, i + 2, auto, pos, kw)
         IN  IF rest.tag = "raise" THEN rest ELSE Plain("str", <<"}">> \o rest.val)
    ELSE IF t[i] = "}"
    THEN Raised("ValueError", "Single '}' encountered in format string")
    ELSE IF t[i] = "{"
    THEN LET j == ClosingBrace(t, i + 1) IN
         IF j = 0 THEN Raised("ValueError", "Single '{' encountered in format string")
         ELSE LET field == SubSeq(t, i + 1, j - 1) IN
              IF "{" \in CharsOf(field)
              THEN Raised("ValueError", "unexpected '{' in field name")
              ELSE IF field = <<>>
              THEN IF auto = -1
                   THEN Raised("ValueError", "cannot switch from manual to automatic")
                   ELSE IF auto >= Len(pos)
                   THEN Raised("IndexError", "Replacement index out of range")
                   ELSE LET rest == FormatFrom(t, j + 1, auto + 1, pos, kw)
                        IN  IF rest.tag = "raise" THEN rest
                            ELSE Plain("str", FormatValue(pos[auto + 1]) \o rest.val)
              ELSE IF IsDigits(field)
              THEN IF auto > 0
                   THEN Raised("ValueError", "cannot switch from automatic to manual")
                   ELSE IF DigitsValue(field) >= Len(pos)
                   THEN Raised("IndexError", "Replacement index out of range")
                   ELSE LET rest == FormatFrom(t, j + 1, -1, pos, kw)
                        IN  IF rest.tag = "raise" THEN rest
                            ELSE Plain("str", FormatValue(pos[DigitsValue(field) + 1])
                                              \o rest.val)
              ELSE IF KwGet(kw, field) = <<>>
              THEN Raised("KeyError", field)
              ELSE LET rest == FormatFrom(t, j + 1, auto, pos, kw)
                   IN  IF rest.tag = "raise" THEN rest
                       ELSE Plain("str", FormatValue(KwGet(kw, field)[1]) \o rest.val)
    ELSE LET rest == FormatFrom(t, i + 1, auto, pos, kw)
         IN  IF rest.tag = "raise" THEN rest ELSE Plain("str", <<t[i]>> \o rest.val)

\* str.format(*pos, **kw)
PyFormat(t, pos, kw) == FormatFrom(t, 1, 0, pos, kw)

(***************************************************************************)
(* ColoredStringABC: every method calls the str method on str(self.s) and  *)
(* wraps what it returns with self._new.                                   *)
(***************************************************************************)
\* self._new(r) for a str method outcome r that is a str
NewOne(self, r) == IF r.tag = "raise" THEN r ELSE _new(self, StrObj(r.val))

\* self._new(c) for every c of a str method outcome r that is a tuple or a list
NewEach(self, r) ==
    IF r.tag = "raise" THEN r
    ELSE LET each == [i \in 1..Len(r.val) |-> _new(self, StrObj(r.val[i]))]
         IN  IF \E i \in 1..Len(each) : each[i].tag = "raise"
             THEN each[CHOOSE i \in 1..Len(each) :
                        /\ each[i].tag = "raise"
                        /\ \A k \in 1..(i - 1) : each[k].tag # "raise"]
             ELSE Plain(r.tag, [i \in 1..Len(each) |-> each[i].val])

upper(self) == NewOne(self, Plain("str", Upper(Str(self.s))))

lower(self) == NewOne(self, Plain("str", Lower(Str(self.s))))

strip(self, chars) == NewOne(self, PyStrip(Str(self.s), chars))

getitem(self, i) == NewOne(self, PyGetItem(Str(self.s), i))

getslice(self, start, stop) == NewOne(self, PySlice(Str(self.s), start, stop))

find(self, sub) == PyFind(Str(self.s), sub)

partition(self, sep) == NewEach(self, PyPartition(Str(self.s), sep))

split(self, sep) == NewEach(self, PySplit(Str(self.s), sep))

\* str(self.s).format(args, kwargs): the tuple and the dict are passed on as
\* two positional arguments
format(self, args, kwargs) ==
    NewOne(self, PyFormat(Str(self.s), <<FmtTuple(args), FmtDict(kwargs)>>, <<>>))

\* "".join(a + str(b) for a, b in product(cs, es))
ProductJoin(cs, es) ==
    Concat([k \in 1..(Len(cs) * Len(es)) |->
                <<cs[((k - 1) \div Len(es)) + 1]>> \o Str(es[((k - 1) % Len(es)) + 1])])

IntArg(n) == [type |-> "int", n |-> n, items |-> <<>>]

ListArg(items) == [type |-> "list", n |-> 0, items |-> items]

\* a repetition of the plain text instead of the rendered text
mul_plain(self, other) ==
    IF Str(self.s) = <<>> \/ (other.type = "int" /\ other.n = 0)
       \/ (other.type = "list" /\ other.items = <<>>)
    THEN _new(self, StrObj(<<>>))
    ELSE IF other.type = "int"
    THEN _new(self, StrObj(Repeat(Str(self.s), other.n)))
    ELSE _new(self, StrObj(ProductJoin(Str(self.s), other.items)))

\* a repetition that ignores the count
mul_once(self, other) ==
    LET cs == color_str(self) IN
    IF cs.tag = "raise" THEN cs
    ELSE IF other.type = "int" THEN _new(self, StrObj(cs.val))
    ELSE _new(self, StrObj(ProductJoin(cs.val, other.items)))

\* ColoredString.__mul__ (and __rmul__, which has the same body): other is
\* an int or a list of objects
mul(self, other) ==
    LET cs == color_str(self) IN
    IF cs.tag = "raise" THEN cs
    ELSE IF cs.val = <<>> \/ (other.type = "int" /\ other.n = 0)
            \/ (other.type = "list" /\ other.items = <<>>)
    THEN _new(self, StrObj(<<>>))
    ELSE IF other.type = "int"
    THEN _new(self, StrObj(Repeat(cs.val, other.n)))
    ELSE _new(self, StrObj(ProductJoin(cs.val, other.items)))

(***************************************************************************)
(* Comparisons.  The right operand is a ColoredString or an object; str    *)
(* compares texts by code point.                                           *)
(***************************************************************************)
\* the characters of the texts in code point order
CodePoints ==
    <<"TAB", LF, ESC, " ", "!", "DQUOTE", "#", "$", "%", "&", "'", "(", ")", "*",
      "+", ",", "-", ".", "/">> \o DigitChars
    \o <<":", ";", "<", "=", ">", "?", "@">> \o Uppers
    \o <<"[", "BACKSLASH", "]", "^", "_", "BACKTICK">> \o Lowers
    \o <<"{", "|", "}", "~", CSI>>

Ord(c) == CHOOSE i \in 1..Len(CodePoints) : CodePoints[i] = c

\* str.__lt__
StrLt(x, y) ==
    \E k \in 1..(Len(x) + 1) :
        /\ k <= Len(y)
        /\ \A j \in 1..(k - 1) : x[j] = y[j]
        /\ k > Len(x) \/ Ord(x[k]) < Ord(y[k])

\* str.__gt__
StrGt(x, y) == StrLt(y, x)

Bool(b) == Plain("bool", b)

\* isinstance(value, ColoredStringABC)
IsColored(value) == "color" \in DOMAIN value

\* str(value): the text, or the exception of the conversion
PyStr(value) ==
    IF IsColored(value) THEN color_str(value)
    ELSE LET r == DunderStr(value) IN
         IF r.raises # "" THEN Raised(r.raises, "")
         ELSE IF ~r.isstr THEN Raised("TypeError", "__str__ returned non-string")
         ELSE Plain("str", r.text)

\* In the comparisons sv is what str(value) returns or raises; a method
\* uses it where the code evaluates str(value).

\* an equality of two ColoredStrings on the underlying text alone
eq_content(self, value, sv) ==
    IF IsColored(value) THEN Bool(Str(self.s) = Str(value.s))
    ELSE IF value.kind = "str" THEN Bool(Str(self.s) = value.text)
    ELSE IF sv.tag = "raise" THEN sv
    ELSE Bool(Str(self.s) = sv.val)

\* ColoredStringABC.__eq__
eq(self, value, sv) ==
    IF IsColored(value)
    THEN Bool(/\ self.always_color = value.always_color
              /\ self.bold = value.bold
              /\ self.color = value.color
              /\ self.s = value.s)
    ELSE IF value.kind = "str" THEN Bool(Str(self.s) = value.text)
    ELSE IF sv.tag = "raise" THEN sv
    ELSE Bool(Str(self.s) = sv.val)

\* object.__ne__: the inverse of what __eq__ returns
ne(self, value, sv) ==
    IF eq(self, value, sv).tag = "raise" THEN eq(self, value, sv)
    ELSE Bool(~eq(self, value, sv).val)

\* ColoredStringABC.__gt__
gt(self, value, sv) ==
    IF IsColored(value) THEN Bool(StrGt(Str(self.s), Str(value.s)))
    ELSE IF value.kind = "str" THEN Bool(StrGt(Str(self.s), value.text))
    ELSE IF sv.tag = "raise" THEN sv
    ELSE Bool(StrGt(Str(self.s), sv.val))

\* ColoredStringABC.__lt__
lt(self, value, sv) ==
    IF IsColored(value) THEN Bool(StrLt(Str(self.s), Str(value.s)))
    ELSE IF value.kind = "str" THEN Bool(StrLt(Str(self.s), value.text))
    ELSE IF sv.tag = "raise" THEN sv
    ELSE Bool(StrLt(Str(self.s), sv.val))

\* self.__eq__(str(value))
EqStr(self, sv) ==
    IF sv.tag = "raise" THEN sv ELSE Bool(Str(self.s) = sv.val)

\* __le__ with the right operand itself in the equality
le_or_eq(self, value, sv) ==
    IF lt(self, value, sv).tag = "raise" \/ lt(self, value, sv).val
    THEN lt(self, value, sv)
    ELSE eq(self, value, sv)

\* __ge__ without the equality
ge_gt_only(self, value, sv) == gt(self, value, sv)

\* ColoredStringABC.__ge__: a ColoredString or a str is compared as it is, any
\* other object after str(value)
ge(self, value, sv) ==
    IF IsColored(value) \/ value.kind = "str"
    THEN IF gt(self, value, sv).val THEN Bool(TRUE) ELSE EqStr(self, sv)
    ELSE IF sv.tag = "raise" THEN sv
    ELSE Bool(StrGt(Str(self.s), sv.val) \/ Str(self.s) = sv.val)

\* ColoredStringABC.__le__
le(self, value, sv) ==
    IF IsColored(value) \/ value.kind = "str"
    THEN IF lt(self, value, sv).val THEN Bool(TRUE) ELSE EqStr(self, sv)
    ELSE IF sv.tag = "raise" THEN sv
    ELSE Bool(StrLt(Str(self.s), sv.val) \/ Str(self.s) = sv.val)

\* self <op> value
compare(self, op, value, sv) ==
    CASE op = "__eq__" -> eq(self, value, sv)
      [] op = "__ne__" -> ne(self, value, sv)
      [] op = "__lt__" -> lt(self, value, sv)
      [] op = "__gt__" -> gt(self, value, sv)
      [] op = "__le__" -> le(self, value, sv)
      [] op = "__ge__" -> ge(self, value, sv)

(***************************************************************************)
(* Length, iteration, containment, hashing and concatenation.              *)
(***************************************************************************)
\* ColoredString.__len__
len(self) == Plain("int", Len(Str(self.s)))

\* an iteration over the underlying text
iter_plain(self) == Plain("iterator", Str(self.s))

\* ColoredString.__iter__: the characters the iterator yields
iter(self) ==
    IF color_str(self).tag = "raise" THEN color_str(self)
    ELSE Plain("iterator", color_str(self).val)

\* ColoredStringABC.__contains__; sv is what str(key) returns or raises
contains(self, key, sv) ==
    IF sv.tag = "raise" THEN sv
    ELSE Bool(\E i \in 0..(Len(Str(self.s)) - Len(sv.val)) :
                  SubSeq(Str(self.s), i + 1, i + Len(sv.val)) = sv.val)

\* what hash() takes of an object: equal for objects that compare equal
HashKey(s) ==
    CASE s.kind \in {"str", "UserString", "TestString"} -> s.text
      [] s.kind = "int" -> s.num
      [] OTHER -> s

\* ColoredStringABC.__hash__: hash((self.s, self.color, self.always_color,
\* self.bold)), as the tuple that is hashed
hash(self) ==
    Plain("int", <<HashKey(self.s), self.color, self.always_color, self.bold>>)

\* hash(t) for a str t
StrHash(t) == Plain("int", t)

\* a concatenation with the underlying text
add_plain(self, other, sv) ==
    IF sv.tag = "raise" THEN sv ELSE Plain("str", Str(self.s) \o sv.val)

\* ColoredString.__add__; sv is what str(other) returns or raises
add(self, other, sv) ==
    IF color_str(self).tag = "raise" THEN color_str(self)
    ELSE IF sv.tag = "raise" THEN sv
    ELSE Plain("str", color_str(self).val \o sv.val)

\* ColoredString.__radd__
radd(self, other, sv) ==
    IF sv.tag = "raise" THEN sv
    ELSE IF color_str(self).tag = "raise" THEN color_str(self)
    ELSE Plain("str", sv.val \o color_str(self).val)

(***************************************************************************)
(* ColoredString.__getattr__: operations the class does not define.        *)
(***************************************************************************)
\* ord(c)
ord(c) ==
    CASE c = "TAB" -> 9 [] c = LF -> 10 [] c = ESC -> 27 [] c = CSI -> 155
      [] OTHER -> Ord(c) + 28

RECURSIVE Words(_)
\* str.split() without a separator
Words(t) ==
    LET u == LStrip(t, Whitespace) IN
    IF u = <<>> THEN <<>>
    ELSE LET j == NextOf(u, 1, Whitespace)
         IN  <<SubSeq(u, 1, j - 1)>> \o Words(SubSeq(u, j, Len(u)))

\* getattr(s, att, ret_none)(): the methods of TestString, and ret_none for
\* every name the source does not have
SourceCall(s, att) ==
    IF s.kind # "TestString" THEN Plain("None", None)
    ELSE CASE att = "get_bytes" -> Plain("bytes", s.text)
           [] att = "get_bytearray" -> Plain("bytearray", s.text)
           [] att = "get_sequence" ->
                Plain("list", [i \in 1..Len(s.text) |-> StrObj(<<s.text[i]>>)])
           [] att = "get_frozenset" ->
                Plain("frozenset", {StrObj(Words(s.text)[i]) : i \in 1..Len(Words(s.text))})
           [] att = "get_set" ->
                Plain("set", {StrObj(Words(s.text)[i]) : i \in 1..Len(Words(s.text))})
           [] att = "get_tuple" ->
                Plain("tuple", [i \in 1..Len(Words(s.text)) |-> StrObj(Words(s.text)[i])])
           [] att = "get_dict" ->
                Plain("dict", {<<StrObj(<<c>>), IntObj(ord(c))>> : c \in CharsOf(s.text)})
           [] att = "get_object" -> Plain("object", "object")
           [] att = "get_userstring" -> Plain("UserString", UserString(Upper(s.text)))
           [] OTHER -> Plain("None", None)

\* a collection built from the outcomes of _new: the first exception, or the
\* collection of the new values
Collected(tag, outcomes, values) ==
    IF \E o \in outcomes : o.tag = "raise"
    THEN CHOOSE o \in outcomes : o.tag = "raise"
    ELSE Plain(tag, values)

\* func_help of ColoredString.__getattr__(att), called without arguments
func_help(self, att) ==
    LET result == SourceCall(self.s, att) IN
    CASE result.tag \in {"str", "UserString"} -> _new(self, result.val)
      [] result.tag \in {"bytes", "bytearray"} -> result
      [] result.tag \in {"tuple", "list"} ->
            Collected(result.tag,
                      {_new(self, result.val[i]) : i \in 1..Len(result.val)},
                      [i \in 1..Len(result.val) |-> _new(self, result.val[i]).val])
      [] result.tag \in {"frozenset", "set"} ->
            Collected(result.tag,
                      {_new(self, x) : x \in result.val},
                      {_new(self, x).val : x \in result.val})
      [] result.tag = "dict" ->
            Collected("dict",
                      {_new(self, kv[1]) : kv \in result.val}
                          \cup {_new(self, kv[2]) : kv \in result.val},
                      {<<_new(self, kv[1]).val, _new(self, kv[2]).val>> : kv \in result.val})
      [] OTHER -> result

(***************************************************************************)
(* The state machine: one action per call the caller makes.                *)
(***************************************************************************)
Call(op, args, self, out) ==
    [op |-> op, args |-> args, self |-> self, out |-> out, stderr |-> FALSE]

Init ==
    /\ DISABLE_COLOR = "unset"
    /\ REPLACE_COLORS = EmptyDict
    /\ environ = <<>>
    /\ isatty \in BOOLEAN
    /\ get_ipython \in BOOLEAN
    /\ vals = <<>>
    /\ last = Call("import", <<>>, <<>>, Plain("None", None))

\* ColoredString(color, s, always_color, bold)
Construct(color, s, always_color, bold) ==
    /\ last' = Call("ColoredString", <<color, s, always_color, bold>>, <<>>,
                    ColoredString(color, s, always_color, bold))
    /\ UNCHANGED <<globals, vals>>

\* crayons.<color>(s, always=always, bold=bold); normal() is the one for RESET
ColorFunction(color, s, always, bold) ==
    /\ last' = Call("color_func", <<color, s, always, bold>>, <<>>,
                    color_func(color, s, always, bold))
    /\ UNCHANGED <<globals, vals>>

\* crayons.random(s, always, bold, colors)
Random(s, always, bold, colors) ==
    \E pick \in supported_colors(colors) :
        /\ last' = Call("random", <<colors, s, always, bold>>, <<>>,
                        random(s, always, bold, colors, pick))
        /\ UNCHANGED <<globals, vals>>

\* the caller binds the ColoredString the last call returned to variable i
Keep(i) ==
    /\ last.out.tag = "ColoredString"
    /\ Len(Str(last.out.val.s)) <= MaxLen
    /\ i \in 1..(Len(vals) + 1)
    /\ vals' = IF i <= Len(vals) THEN [vals EXCEPT ![i] = last.out.val]
               ELSE Append(vals, last.out.val)
    /\ last' = Call("keep", <<i>>, <<>>, Plain("None", None))
    /\ UNCHANGED globals

\* crayons.disable()
Disable ==
    /\ DISABLE_COLOR' = "True"
    /\ last' = Call("disable", <<>>, <<>>, Plain("None", None))
    /\ UNCHANGED <<REPLACE_COLORS, environ, isatty, get_ipython, vals>>

\* crayons.enable()
Enable ==
    /\ DISABLE_COLOR' = "False"
    /\ last' = Call("enable", <<>>, <<>>, Plain("None", None))
    /\ UNCHANGED <<REPLACE_COLORS, environ, isatty, get_ipython, vals>>

\* crayons.replace_colors(replace_dict)
ReplaceColors(replace_dict) ==
    LET r == replace_colors(replace_dict) IN
    /\ REPLACE_COLORS' = r.table
    /\ last' = [Call("replace_colors", <<replace_dict>>, <<>>, r.out)
                    EXCEPT !.stderr = r.stderr]
    /\ UNCHANGED <<DISABLE_COLOR, environ, isatty, get_ipython, vals>>

\* crayons.reset_replace_colors()
ResetReplaceColors ==
    /\ REPLACE_COLORS' = EmptyDict
    /\ last' = Call("reset_replace_colors", <<>>, <<>>, Plain("None", None))
    /\ UNCHANGED <<DISABLE_COLOR, environ, isatty, get_ipython, vals>>

\* the caller sets os.environ[name] = value
SetEnv(name, value) ==
    /\ environ' = (name :> value) @@ environ
    /\ environ' # environ
    /\ last' = Call("setenv", <<name, value>>, <<>>, Plain("None", None))
    /\ UNCHANGED <<DISABLE_COLOR, REPLACE_COLORS, isatty, get_ipython, vals>>

\* the caller deletes os.environ[name]
DelEnv(name) ==
    /\ name \in DOMAIN environ
    /\ environ' = IF DOMAIN environ = {name} THEN <<>>
                  ELSE [n \in DOMAIN environ \ {name} |-> environ[n]]
    /\ last' = Call("delenv", <<name>>, <<>>, Plain("None", None))
    /\ UNCHANGED <<DISABLE_COLOR, REPLACE_COLORS, isatty, get_ipython, vals>>

\* a method that stores the ColoredString it returns in its receiver
MethodInPlace(i, op, args, out) ==
    /\ i \in 1..Len(vals)
    /\ last' = Call(op, args, <<vals[i]>>, out)
    /\ vals' = IF out.tag = "ColoredString" THEN [vals EXCEPT ![i] = out.val] ELSE vals
    /\ UNCHANGED globals

\* a method of vals[i] is called with args and returns or raises out
Method(i, op, args, out) ==
    /\ i \in 1..Len(vals)
    /\ last' = Call(op, args, <<vals[i]>>, out)
    /\ UNCHANGED <<globals, vals>>

\* str(vals[i])
Render(i) == i \in 1..Len(vals) /\ Method(i, "__str__", <<>>, color_str(vals[i]))

UpperCall(i) == i \in 1..Len(vals) /\ Method(i, "upper", <<>>, upper(vals[i]))

LowerCall(i) == i \in 1..Len(vals) /\ Method(i, "lower", <<>>, lower(vals[i]))

StripCall(i, chars) ==
    i \in 1..Len(vals) /\ Method(i, "strip", <<chars>>, strip(vals[i], chars))

GetItemCall(i, k) ==
    i \in 1..Len(vals) /\ Method(i, "__getitem__", <<k>>, getitem(vals[i], k))

SliceCall(i, start, stop) ==
    /\ i \in 1..Len(vals)
    /\ Method(i, "__getitem__", <<start, stop>>, getslice(vals[i], start, stop))

FindCall(i, sub) == i \in 1..Len(vals) /\ Method(i, "find", <<sub>>, find(vals[i], sub))

PartitionCall(i, sep) ==
    i \in 1..Len(vals) /\ Method(i, "partition", <<sep>>, partition(vals[i], sep))

SplitCall(i, sep) ==
    i \in 1..Len(vals) /\ Method(i, "split", <<sep>>, split(vals[i], sep))

FormatCall(i, args, kwargs) ==
    /\ i \in 1..Len(vals)
    /\ Method(i, "format", <<args, kwargs>>, format(vals[i], args, kwargs))

\* vals[i] * other
MulCall(i, other) ==
    i \in 1..Len(vals) /\ Method(i, "__mul__", <<other>>, mul(vals[i], other))

\* vals[i] <op> value
CompareCall(i, op, value) ==
    /\ i \in 1..Len(vals)
    /\ \E sv \in {PyStr(value)} :
          Method(i, op, <<value>>, compare(vals[i], op, value, sv))

\* vals[i] <op> crayons.<color>(s, always=always, bold=bold)
CompareColored(i, op, color, s, always, bold) ==
    LET b == color_func(color, s, always, bold) IN
    b.tag = "ColoredString" /\ CompareCall(i, op, b.val)

\* len(vals[i])
LenCall(i) == i \in 1..Len(vals) /\ Method(i, "__len__", <<>>, len(vals[i]))

\* list(vals[i])
IterCall(i) == i \in 1..Len(vals) /\ Method(i, "__iter__", <<>>, iter(vals[i]))

\* hash(vals[i])
HashCall(i) == i \in 1..Len(vals) /\ Method(i, "__hash__", <<>>, hash(vals[i]))

\* key in vals[i]
ContainsCall(i, key) ==
    /\ i \in 1..Len(vals)
    /\ \E sv \in {PyStr(key)} :
          Method(i, "__contains__", <<key>>, contains(vals[i], key, sv))

\* vals[i] + other
AddCall(i, other) ==
    /\ i \in 1..Len(vals)
    /\ \E sv \in {PyStr(other)} : Method(i, "__add__", <<other>>, add(vals[i], other, sv))

\* other + vals[i], for an other whose __add__ does not take a ColoredString
RAddCall(i, other) ==
    /\ i \in 1..Len(vals)
    /\ \E sv \in {PyStr(other)} :
          Method(i, "__radd__", <<other>>, radd(vals[i], other, sv))

\* vals[i].<att>()
GetattrCall(i, att) ==
    i \in 1..Len(vals) /\ Method(i, "__getattr__", <<att>>, func_help(vals[i], att))

(***************************************************************************)
(* The inputs the calls are made with.                                     *)
(***************************************************************************)
NOT_A_COLOR == <<"n", "o", "t", "_", "a", "_", "c", "o", "l", "o", "r">>

hi == <<"h", "i">>

AB == <<"A", "B">>

Braces == <<"{", "}">>

\* always and bold
Flags == BOOLEAN \X BOOLEAN

BadSources ==
    {BadReturnType, NoStr, RaisingStr("ValueError"), RaisingStr("TypeError"),
     RaisingStr("NotImplementedError")}

\* the colors= arguments of random()
RandomColors == {<<>>, <<RED, BLUE>>, <<Lower(RED), NOT_A_COLOR>>}

\* replace_colors arguments: a chain red -> blue -> reset, an unknown value
\* and an empty value
ChainDict == Dict(<<<<Lower(RED), Lower(BLUE)>>, <<Lower(BLUE), Lower(RESET)>>>>)

UnknownDict == Dict(<<<<RED, NOT_A_COLOR>>>>)

EmptyValueDict == Dict(<<<<Lower(RED), <<>>>>>>)

\* two keys that differ in case only
CaseDict == Dict(<<<<<<"R", "e", "d">>, Lower(GREEN)>>, <<RED, <<"B", "l", "u", "e">>>>>>)

\* a key that is no color
UnknownKeyDict == Dict(<<<<NOT_A_COLOR, Lower(RED)>>>>)

ReplaceArgs ==
    {ChainDict, UnknownDict, EmptyValueDict, UnknownKeyDict, List(<<RED, BLUE>>)}

\* the caller holds one ColoredString variable
Slots == {1}

\* a plain script whose stdout is no terminal
InitScript == Init /\ ~isatty /\ ~get_ipython

(***************************************************************************)
(* Construction: ColoredString(), the color functions and random() under   *)
(* every override table and CLINT_FORCE_COLOR setting.                     *)
(***************************************************************************)
Next ==
    \/ \E c \in {Lower(RED), NOT_A_COLOR}, s \in {StrObj(hi)} \cup BadSources,
          f \in Flags :
            Construct(c, s, f[1], f[2])
    \/ \E c \in {RED, BLUE, RESET}, s \in {StrObj(hi), IntObj(12), BytesObj(hi)},
          f \in Flags :
            ColorFunction(c, s, f[1], f[2])
    \/ \E cs \in RandomColors, f \in {<<FALSE, FALSE>>, <<TRUE, TRUE>>} :
            Random(StrObj(hi), f[1], f[2], cs)
    \/ \E d \in ReplaceArgs : ReplaceColors(d)
    \/ ResetReplaceColors
    \/ SetEnv("CLINT_FORCE_COLOR", "1")
    \/ DelEnv("CLINT_FORCE_COLOR")

Spec == InitScript /\ [][Next]_vars

(***************************************************************************)
(* Text operations on the values the color functions return.               *)
(***************************************************************************)
NextOps ==
    \/ \E c \in {RED, BLUE}, s \in {StrObj(hi), StrObj(Braces)}, f \in Flags :
            ColorFunction(c, s, f[1], f[2])
    \/ \E i \in Slots : Keep(i)
    \/ \E d \in {ChainDict, CaseDict} : ReplaceColors(d)
    \/ ResetReplaceColors
    \/ SetEnv("CLINT_FORCE_COLOR", "1")
    \/ DelEnv("CLINT_FORCE_COLOR")
    \/ \E i \in Slots : UpperCall(i)
    \/ \E i \in Slots : LowerCall(i)
    \/ \E i \in Slots, chars \in {None, <<"h">>} : StripCall(i, chars)
    \/ \E i \in Slots, k \in {0, -1, MaxLen} : GetItemCall(i, k)
    \/ \E i \in Slots : SliceCall(i, 0, 1)
    \/ \E i \in Slots : FindCall(i, <<"i">>)
    \/ \E i \in Slots, sep \in {<<"i">>, <<>>} : PartitionCall(i, sep)
    \/ \E i \in Slots : SplitCall(i, <<"i">>)
    \/ \E i \in Slots, args \in {<<>>, <<FmtStr(<<"a">>)>>} : FormatCall(i, args, <<>>)

SpecOps == InitScript /\ [][NextOps]_vars

(***************************************************************************)
(* Rendering and repetition under every enable/disable, TERM and terminal  *)
(* setting.                                                                *)
(***************************************************************************)
NextRender ==
    \/ \E cs \in {<<RED, <<>>>>, <<RED, hi>>, <<RED, AB>>, <<BLUE, hi>>}, f \in Flags :
            ColorFunction(cs[1], StrObj(cs[2]), f[1], f[2])
    \/ \E i \in Slots : Keep(i)
    \/ Disable
    \/ Enable
    \/ ReplaceColors(EmptyValueDict)
    \/ ResetReplaceColors
    \/ SetEnv("TERM", "dumb")
    \/ DelEnv("TERM")
    \/ \E i \in Slots : Render(i)
    \/ \E i \in Slots, n \in 0..MaxRepeat : MulCall(i, IntArg(n))
    \/ \E i \in Slots, es \in {<<>>, <<StrObj(<<"X">>), StrObj(<<"Y">>)>>} :
            MulCall(i, ListArg(es))

SpecRender == Init /\ [][NextRender]_vars

(***************************************************************************)
(* Properties of construction, checked under Spec.                         *)
(***************************************************************************)
ConstructorCalls == {"ColoredString", "color_func"}

\* C5: constructing with a color whose upper-cased name is not one of the
\* seventeen FORE_COLORS keys raises a KeyError that carries the name, also
\* when the source cannot be converted to text; no value is created and the
\* call changes no global state.
C5_InvalidColor ==
    /\ [](/\ Cardinality(DOMAIN FORE_COLORS) = 17
          /\ (/\ last.op = "ColoredString"
              /\ Upper(last.args[1]) \notin DOMAIN FORE_COLORS)
             => (/\ last.out.tag = "raise"
                 /\ last.out.exc = "KeyError"
                 /\ last.out.arg = last.args[1]))
    /\ [][last'.op = "ColoredString" => globals' = globals /\ vals' = vals]_vars

\* an unknown color together with a source whose conversion fails
C5_Witness ==
    /\ last.op = "ColoredString"
    /\ last.args[1] = NOT_A_COLOR
    /\ last.args[2] = BadReturnType
    /\ last.out.tag = "raise"
    /\ last.out.exc = "KeyError"

\* C6 as stated: with a valid color, a source whose conversion is missing,
\* raises any exception, or returns a non-text fails with TypeError
\* "Failed to convert input to string".
C6_AnyExceptionIsTypeError ==
    (/\ last.op \in ConstructorCalls
     /\ Upper(last.args[1]) \in DOMAIN FORE_COLORS
     /\ last.args[2].kind \in {"NoStr", "RaisingStr", "BadReturnType"})
    => (/\ last.out.tag = "raise"
        /\ last.out.exc = "TypeError"
        /\ last.out.arg = not_str_msg)

\* C6: with a valid color, a source whose conversion is missing, raises
\* NotImplementedError, AttributeError or TypeError, or returns a non-text
\* fails with TypeError "Failed to convert input to string"; any other
\* exception the conversion raises leaves the constructor unchanged; no value
\* is produced in either case.
C6_NonTextSource ==
    (/\ last.op \in ConstructorCalls
     /\ Upper(last.args[1]) \in DOMAIN FORE_COLORS
     /\ last.args[2].kind \in {"NoStr", "RaisingStr", "BadReturnType"})
    => /\ last.out.tag = "raise"
       /\ IF /\ last.args[2].kind = "RaisingStr"
             /\ last.args[2].exc \notin
                    {"NotImplementedError", "AttributeError", "TypeError"}
          THEN last.out.exc = last.args[2].exc
          ELSE last.out.exc = "TypeError" /\ last.out.arg = not_str_msg

\* a conversion that raises ValueError, with a valid color
C6_Witness ==
    /\ last.op = "ColoredString"
    /\ last.args[1] = Lower(RED)
    /\ last.args[2] = RaisingStr("ValueError")
    /\ last.out.tag = "raise"
    /\ last.out.exc = "ValueError"

\* the upper-cased names random(colors=...) may select
Selectable(colors) ==
    LET given == {c \in COLORS : \E i \in 1..Len(colors) : Lower(colors[i]) = c}
    IN  {Upper(c) : c \in IF given = {} THEN COLORS ELSE given}

\* C10 as stated: in every global state the stored color of random(s,
\* colors=cs) is the upper-cased form of a member of the intersection of the
\* lower-cased cs with the sixteen names (of the sixteen when that is empty);
\* RESET is never selected and the call never fails.
C10_StoredIsSelected ==
    last.op = "random"
    => (/\ last.out.tag = "ColoredString"
        /\ last.out.val.color \in Selectable(last.args[1])
        /\ last.out.val.color # RESET)

\* C10: random(s, colors=cs) never fails for a text s, and its stored color
\* is REPLACE_COLORS.get(U, U) for the upper-cased form U of a member of the
\* intersection of the lower-cased cs with the sixteen names (of the sixteen
\* when that is empty); U is never RESET, and with an empty override table
\* the stored color is U.
C10_Random ==
    last.op = "random"
    => (/\ last.out.tag = "ColoredString"
        /\ RESET \notin Selectable(last.args[1])
        /\ \E U \in Selectable(last.args[1]) :
              last.out.val.color =
                  IF U \in DOMAIN REPLACE_COLORS THEN REPLACE_COLORS[U] ELSE U
        /\ REPLACE_COLORS = EmptyDict
              => last.out.val.color \in Selectable(last.args[1]))

\* random picks BLUE from [RED, BLUE] while the table maps BLUE to RESET
C10_Witness ==
    /\ last.op = "random"
    /\ last.args[1] = <<RED, BLUE>>
    /\ REPLACE_COLORS = UpperDict(ChainDict.items)
    /\ last.out.tag = "ColoredString"
    /\ last.out.val.color = RESET

(***************************************************************************)
(* Properties of the override table and of the text operations, checked    *)
(* under SpecOps.                                                          *)
(***************************************************************************)
TableCalls == {"replace_colors", "reset_replace_colors"}

\* C9: the override table is consulted when a value is constructed.  After
\* replace_colors(m) succeeds the table is the upper-cased m; a color
\* function for c stores the table's entry for c when there is one and c
\* otherwise; reset_replace_colors() empties the table, so that c is stored
\* again; only these two calls change the table, and neither changes a value
\* constructed earlier.
C9_OverrideAtConstruction ==
    /\ [](/\ (/\ last.op = "replace_colors"
              /\ last.args[1].type = "dict"
              /\ last.out.tag # "raise")
             => LET m == last.args[1].items IN
                /\ DOMAIN REPLACE_COLORS = {Upper(m[i][1]) : i \in 1..Len(m)}
                /\ \A i \in 1..Len(m) :
                      (\A j \in (i + 1)..Len(m) : Upper(m[j][1]) # Upper(m[i][1]))
                      => REPLACE_COLORS[Upper(m[i][1])] = Upper(m[i][2])
          /\ (last.op = "color_func" /\ last.args[2].kind = "str")
             => /\ last.out.tag = "ColoredString"
                /\ last.out.val.color =
                      IF last.args[1] \in DOMAIN REPLACE_COLORS
                      THEN REPLACE_COLORS[last.args[1]] ELSE last.args[1]
          /\ last.op = "reset_replace_colors" => DOMAIN REPLACE_COLORS = {})
    /\ [][/\ REPLACE_COLORS' # REPLACE_COLORS => last'.op \in TableCalls
          /\ last'.op \in TableCalls => vals' = vals]_vars

\* red() stores BLUE under the table red -> blue -> reset while a value
\* constructed before the table was installed still has RED
C9_Witness ==
    /\ last.op = "color_func"
    /\ last.args[1] = RED
    /\ REPLACE_COLORS = (RED :> BLUE) @@ (BLUE :> RESET)
    /\ last.out.tag = "ColoredString"
    /\ last.out.val.color = BLUE
    /\ Len(vals) = 1
    /\ vals[1].color = RED

TextOps == {"upper", "lower", "strip", "__getitem__", "partition", "split", "format"}

\* the ColoredStrings an outcome holds
ResultValues(out) ==
    IF out.tag = "ColoredString" THEN {out.val}
    ELSE IF out.tag \in {"tuple", "list"} THEN {out.val[i] : i \in 1..Len(out.val)}
    ELSE {}

\* C1: in every global state, each Colorized Value a text-transforming
\* operation returns has the color, always-color and bold of the value it
\* was applied to.
C1_StylingPreserved ==
    last.op \in TextOps
    => \A v \in ResultValues(last.out) :
          /\ v.color = last.self[1].color
          /\ v.always_color = last.self[1].always_color
          /\ v.bold = last.self[1].bold

\* what the str method op returns or raises for the plain text t
StrMethod(t, op, args) ==
    CASE op = "upper" -> Plain("str", Upper(t))
      [] op = "lower" -> Plain("str", Lower(t))
      [] op = "strip" -> PyStrip(t, args[1])
      [] op = "__getitem__" /\ Len(args) = 1 -> PyGetItem(t, args[1])
      [] op = "__getitem__" /\ Len(args) = 2 -> PySlice(t, args[1], args[2])
      [] op = "find" -> PyFind(t, args[1])
      [] op = "partition" -> PyPartition(t, args[1])
      [] op = "split" -> PySplit(t, args[1])
      [] op = "format" -> PyFormat(t, args[1], args[2])

\* an outcome with every ColoredString in it replaced by its underlying text
Unwrap(out) ==
    IF out.tag = "ColoredString" THEN Plain("str", Str(out.val.s))
    ELSE IF out.tag \in {"tuple", "list"}
    THEN Plain(out.tag, [i \in 1..Len(out.val) |-> Str(out.val[i].s)])
    ELSE out

\* C2: a text operation applied to a Colorized Value with underlying text x
\* returns, unwrapped, what the operation returns for x, and raises exactly
\* when the operation raises for x.
C2_ContentFidelity ==
    last.op \in TextOps \cup {"find"}
    => LET r == StrMethod(Str(last.self[1].s), last.op, last.args) IN
       IF r.tag = "raise"
       THEN last.out.tag = "raise" /\ last.out.exc = r.exc
       ELSE Unwrap(last.out) = r

(***************************************************************************)
(* Properties of rendering and repetition, checked under SpecRender.       *)
(***************************************************************************)
\* the global flag is disabled: set by disable(), or never set while the
\* default says to disable
Disabled ==
    \/ DISABLE_COLOR = "True"
    \/ /\ DISABLE_COLOR = "unset"
       /\ get_ipython \/ ("TERM" \in DOMAIN environ /\ environ["TERM"] = "dumb")

\* the condition under which rendering v is to emit color
Emits(v) == v.always_color \/ (isatty /\ ~Disabled)

HasPrefix(t, prefix) ==
    Len(t) >= Len(prefix) /\ SubSeq(t, 1, Len(prefix)) = prefix

\* C3: rendering a Colorized Value gives the ANSI-wrapped form, which starts
\* with the fore-color escape sequence, if and only if always_color is true
\* or stdout is a terminal and the global flag is not disabled; in every
\* other case it gives exactly the underlying plain text.
C3_RenderGating ==
    last.op = "__str__"
    => LET v == last.self[1] IN
       /\ last.out.tag = "str"
       /\ IF Emits(v)
          THEN /\ HasPrefix(last.out.val, FORE_COLORS[Upper(v.color)])
               /\ last.out.val # Str(v.s)
          ELSE last.out.val = Str(v.s)

\* C4: when the wrapped form is emitted for a text without escape sequences
\* it is the fore-color code of the stored color, the intensity code (ESC[1m
\* if bold, else ESC[22m), the text, ESC[22m and ESC[39m; the code of RED is
\* ESC[31m.
C4_WrapFormat ==
    /\ FORE_COLORS[RED] = <<ESC, "[", "3", "1", "m">>
    /\ FORE_COLORS[BLUE] = <<ESC, "[", "3", "4", "m">>
    /\ (/\ last.op = "__str__"
        /\ last.out.tag = "str"
        /\ Emits(last.self[1])
        /\ ESC \notin CharsOf(Str(last.self[1].s)))
       => last.out.val =
             FORE_COLORS[Upper(last.self[1].color)]
             \o (IF last.self[1].bold THEN <<ESC, "[", "1", "m">>
                 ELSE <<ESC, "[", "2", "2", "m">>)
             \o Str(last.self[1].s)
             \o <<ESC, "[", "2", "2", "m">> \o <<ESC, "[", "3", "9", "m">>

\* red("hi", always=True) rendered after disable()
C4_Witness ==
    /\ last.op = "__str__"
    /\ DISABLE_COLOR = "True"
    /\ last.self[1].color = RED
    /\ last.self[1].always_color
    /\ last.out.tag = "str"
    /\ last.out.val = <<ESC, "[", "3", "1", "m", ESC, "[", "2", "2", "m", "h", "i",
                        ESC, "[", "2", "2", "m", ESC, "[", "3", "9", "m">>

RECURSIVE EachElement(_, _)
\* c + e for each element e of es in order
EachElement(c, es) ==
    IF es = <<>> THEN <<>>
    ELSE <<c>> \o Str(Head(es)) \o EachElement(c, Tail(es))

RECURSIVE EachChar(_, _)
\* c + e for each character c of t in order and each element e of es in order
EachChar(t, es) ==
    IF t = <<>> THEN <<>>
    ELSE EachElement(Head(t), es) \o EachChar(Tail(t), es)

MulByList == last.op = "__mul__" /\ last.args[1].type = "list"

MulByInt == last.op = "__mul__" /\ last.args[1].type = "int"

C8_StrIsRepeatedRender ==
    MulByInt
    => /\ last.out.tag = "ColoredString"
       /\ color_str(last.self[1]).tag = "str"
       /\ color_str(last.out.val).tag = "str"
       /\ color_str(last.out.val).val =
              Repeat(color_str(last.self[1]).val, last.args[1].n)

\* C8: for n >= 0 the underlying text of v * n is v.color_str repeated n
\* times; str(v * n) is that text when v * n renders without color, and is
\* not that text when it renders with color; when rendering v raises, v * n
\* raises the same error.
C8_TextIsRepeatedRender ==
    MulByInt
    => LET v == last.self[1]
           n == last.args[1].n
           cs == color_str(v)
       IN  IF cs.tag = "raise" THEN last.out = cs
           ELSE /\ last.out.tag = "ColoredString"
                /\ Str(last.out.val.s) = Repeat(cs.val, n)
                /\ color_str(last.out.val).tag = "str"
                   => IF Emits(last.out.val)
                      THEN color_str(last.out.val).val # Repeat(cs.val, n)
                      ELSE color_str(last.out.val).val = Repeat(cs.val, n)

\* red("hi", always=True) * 2
C8_Witness ==
    /\ MulByInt
    /\ last.args[1].n = 2
    /\ Str(last.self[1].s) = hi
    /\ last.self[1].always_color
    /\ last.out.tag = "ColoredString"
    /\ Len(Str(last.out.val.s)) = 2 * (Len(hi) + 20)

(***************************************************************************)
(* Comparisons of a kept value with ColoredStrings and objects, on and off *)
(* a terminal, enabled and disabled.                                       *)
(***************************************************************************)
CompareOps == {"__eq__", "__ne__", "__lt__", "__gt__", "__le__", "__ge__"}

hj == <<"h", "j">>

\* the color, text, always and bold of the right operands that are
\* ColoredStrings
ColoredOperands ==
    {<<RED, hi, FALSE, FALSE>>, <<RED, hi, TRUE, FALSE>>, <<RED, hi, FALSE, TRUE>>,
     <<BLUE, hi, FALSE, FALSE>>, <<BLUE, hi, TRUE, FALSE>>, <<RED, hj, FALSE, FALSE>>}

\* the right operands that are no ColoredStrings
ObjectOperands == {StrObj(hi), IntObj(12), BadReturnType, RaisingStr("ValueError")}

NextCompare ==
    \/ \E s \in {StrObj(hi), StrObj(<<"1", "2">>)}, always \in BOOLEAN :
            ColorFunction(RED, s, always, FALSE)
    \/ \E i \in Slots : Keep(i)
    \/ Disable
    \/ Enable
    \/ ReplaceColors(EmptyValueDict)
    \/ ResetReplaceColors
    \/ \E i \in Slots, op \in CompareOps, b \in ColoredOperands :
            CompareColored(i, op, b[1], StrObj(b[2]), b[3], b[4])
    \/ \E i \in Slots, op \in CompareOps, value \in ObjectOperands :
            CompareCall(i, op, value)

\* a caller that is no IPython session
InitCompare == Init /\ ~get_ipython

SpecCompare == InitCompare /\ [][NextCompare]_vars

(***************************************************************************)
(* clean applied to every text over the characters _STRIP distinguishes:   *)
(* the two introducers, "[" and "m" (final bytes), a parameter byte, an    *)
(* intermediate byte and a line feed (none of these).                      *)
(***************************************************************************)
MaxText == 4

CleanAlphabet == {ESC, CSI, "[", "m", "3", "!", LF}

CleanTexts == UNION {[1..n -> CleanAlphabet] : n \in 0..MaxText}

\* the caller has a text s
InitClean ==
    /\ DISABLE_COLOR = "unset"
    /\ REPLACE_COLORS = EmptyDict
    /\ environ = <<>>
    /\ isatty = FALSE
    /\ get_ipython = FALSE
    /\ vals = <<>>
    /\ \E s \in CleanTexts : last = Call("text", <<s>>, <<>>, Plain("None", None))

\* crayons.clean(s) for the caller's text
CleanCall ==
    /\ last.op = "text"
    /\ last' = Call("clean", last.args, <<>>, Plain("str", clean(last.args[1])))
    /\ UNCHANGED <<globals, vals>>

\* crayons.clean applied to what clean returned
CleanAgain ==
    /\ last.op = "clean"
    /\ last' = Call("clean", <<last.out.val>>, <<>>, Plain("str", clean(last.out.val)))
    /\ UNCHANGED <<globals, vals>>

NextClean == CleanCall \/ CleanAgain

SpecClean == InitClean /\ [][NextClean]_vars

Escapes == {ESC, CSI}

\* a CSI sequence starts at position i of t: ESC "[" or CSI, then parameter
\* bytes, then intermediate bytes, then one final byte
StartsSequence(t, i) ==
    LET b == IF t[i] = CSI THEN i + 1
             ELSE IF t[i] = ESC /\ i < Len(t) /\ t[i + 1] = "[" THEN i + 2
             ELSE 0
    IN  /\ b # 0
        /\ \E p \in b..Len(t), q \in b..Len(t) :
              /\ p <= q
              /\ \A k \in b..(p - 1) : t[k] \in ParameterBytes
              /\ \A k \in p..(q - 1) : t[k] \in IntermediateBytes
              /\ t[q] \in FinalBytes

HasSequence(t) == \E i \in 1..Len(t) : StartsSequence(t, i)

EscapeFree(t) == \A i \in 1..Len(t) : t[i] \notin Escapes

\* the positions of the escape bytes of t that start no CSI sequence
StrayEscapes(t) == {i \in 1..Len(t) : t[i] \in Escapes /\ ~StartsSequence(t, i)}

\* C11 as stated: clean(clean(s)) = clean(s) for every text s.
C11_CleanIdempotent ==
    last.op = "clean" => clean(last.out.val) = last.out.val

\* C11: clean(clean(s)) = clean(s) exactly when clean(s) holds no CSI
\* sequence, which is so whenever every escape byte of s starts a CSI
\* sequence; removing a sequence can join an escape byte that was kept to
\* the bytes after the sequence, and then a second clean removes more.
C11_CleanIdempotentWhenNoStray ==
    last.op = "clean"
    => /\ clean(last.out.val) = last.out.val <=> ~HasSequence(last.out.val)
       /\ StrayEscapes(last.args[1]) = {} => clean(last.out.val) = last.out.val

\* clean("\x9b\x9bmm") is "\x9bm", which clean empties
C11_Witness ==
    /\ last.op = "clean"
    /\ last.args[1] = <<CSI, CSI, "m", "m">>
    /\ last.out.val = <<CSI, "m">>
    /\ clean(last.out.val) = <<>>

\* C12 as stated: clean(s) holds no escape byte and no CSI sequence.
C12_CleanRemovesAllEscapes ==
    last.op = "clean" => EscapeFree(last.out.val) /\ ~HasSequence(last.out.val)

\* C12: clean(s) is s without its CSI sequences; an escape byte that starts
\* no CSI sequence is kept, so clean(s) holds as many escape bytes as s has
\* escape bytes that start no sequence, and is free of escape bytes (and of
\* CSI sequences) exactly when every escape byte of s starts one.
C12_CleanKeepsStrayEscapes ==
    last.op = "clean"
    => LET s == last.args[1]
           c == last.out.val
       IN  /\ Cardinality({i \in 1..Len(c) : c[i] \in Escapes})
                 = Cardinality(StrayEscapes(s))
           /\ EscapeFree(c) <=> StrayEscapes(s) = {}
           /\ EscapeFree(c) => ~HasSequence(c)
           /\ ~HasSequence(s) => c = s

\* clean("\x1b\x9bm") removes "\x9bm" and keeps the ESC
C12_Witness ==
    /\ last.op = "clean"
    /\ last.args[1] = <<ESC, CSI, "m">>
    /\ last.out.val = <<ESC>>

(***************************************************************************)
(* The comparisons of a ColoredString, under SpecCompare.                  *)
(***************************************************************************)
OrderingOps == {"__lt__", "__gt__", "__le__", "__ge__"}

\* x or y, for two outcomes that are a bool or a raised exception
OrElse(x, y) == IF x.tag = "raise" \/ x.val THEN x ELSE y

\* not x
Not(x) == IF x.tag = "raise" THEN x ELSE Bool(~x.val)

\* a == str(b)
EqualsStrOf(a, b) ==
    IF PyStr(b).tag = "raise" THEN PyStr(b)
    ELSE eq(a, StrObj(PyStr(b).val), PyStr(b))

OnTexts(op, x, y) ==
    CASE op = "__lt__" -> Bool(StrLt(x, y))
      [] op = "__gt__" -> Bool(StrGt(x, y))
      [] op = "__le__" -> Bool(StrLt(x, y) \/ x = y)
      [] op = "__ge__" -> Bool(StrGt(x, y) \/ x = y)

\* C15: each of a < b, a > b, a <= b, a >= b is the same comparison on the
\* underlying text of a and, for a ColoredString b, the underlying text of b
\* whatever the styling and the render state, or, for another b whose
\* conversion returns a text, the text of b.
C15_OrderingOnContent ==
    last.op \in OrderingOps
    => LET a == last.self[1]
           b == last.args[1]
       IN  IF IsColored(b) THEN last.out = OnTexts(last.op, Str(a.s), Str(b.s))
           ELSE PyStr(b).tag = "str"
                => last.out = OnTexts(last.op, Str(a.s), PyStr(b).val)

\* C16: for a right operand whose __str__ raises or returns no text,
\* a == value is false and a < value, a > value, a <= value, a >= value
\* raise a TypeError.
C16_EqualityNeverRaises ==
    (last.op \in CompareOps /\ ~IsColored(last.args[1])
        /\ PyStr(last.args[1]).tag = "raise")
    => /\ last.op = "__eq__" => last.out = Bool(FALSE)
       /\ last.op \in OrderingOps
            => last.out.tag = "raise" /\ last.out.exc = "TypeError"

(***************************************************************************)
(* replace_colors calls that must fail, under Spec.                        *)
(***************************************************************************)
IsColorName(name) == Upper(name) \in DOMAIN FORE_COLORS

\* the positions of the items of a dict whose value is no color name
InvalidValues(items) == {i \in 1..Len(items) : ~IsColorName(items[i][2])}

\* the value of the first such item
FirstInvalidValue(items) ==
    items[CHOOSE i \in InvalidValues(items) : \A j \in InvalidValues(items) : i <= j][2]

\* C17: a replace_colors call with a dict that has a value that is no color
\* name raises KeyError naming the first such value, a call with a non-dict
\* returns after a write to stderr, and either call leaves REPLACE_COLORS as
\* it was.
C17_FailedReplaceKeepsTable ==
    [][last'.op = "replace_colors"
       => LET replace_dict == last'.args[1] IN
          /\ replace_dict.type # "dict"
                => /\ last'.out = Plain("None", None)
                   /\ last'.stderr
                   /\ REPLACE_COLORS' = REPLACE_COLORS
          /\ (replace_dict.type = "dict" /\ InvalidValues(replace_dict.items) # {})
                => /\ last'.out.tag = "raise"
                   /\ last'.out.exc = "KeyError"
                   /\ last'.out.arg = FirstInvalidValue(replace_dict.items)
                   /\ REPLACE_COLORS' = REPLACE_COLORS]_vars

\* C18: a replace_colors call with a dict that has a key that is no color
\* name raises KeyError and leaves REPLACE_COLORS as it was.
C18_UnsupportedKeyRejected ==
    [][(/\ last'.op = "replace_colors"
        /\ last'.args[1].type = "dict"
        /\ \E i \in 1..Len(last'.args[1].items) :
                ~IsColorName(last'.args[1].items[i][1]))
       => /\ last'.out.tag = "raise"
          /\ last'.out.exc = "KeyError"
          /\ REPLACE_COLORS' = REPLACE_COLORS]_vars

(***************************************************************************)
(* Every way of constructing a ColoredString under every setting of        *)
(* CLINT_FORCE_COLOR.                                                      *)
(***************************************************************************)
ForceValues == {"1", "0", ""}

NextForce ==
    \/ \E f \in Flags : Construct(Lower(RED), StrObj(hi), f[1], f[2])
    \/ \E f \in Flags : ColorFunction(BLUE, StrObj(hi), f[1], f[2])
    \/ \E always \in BOOLEAN : Random(StrObj(hi), always, FALSE, <<RED, BLUE>>)
    \/ \E i \in Slots : Keep(i)
    \/ \E i \in Slots : UpperCall(i)
    \/ \E i \in Slots : PartitionCall(i, <<"i">>)
    \/ \E value \in ForceValues : SetEnv("CLINT_FORCE_COLOR", value)
    \/ DelEnv("CLINT_FORCE_COLOR")

SpecForce == InitScript /\ [][NextForce]_vars

\* the ColoredStrings the last call constructed
Constructed ==
    IF last.out.tag = "ColoredString" THEN {last.out.val}
    ELSE IF last.out.tag \in {"tuple", "list"} /\ last.self # <<>>
    THEN {last.out.val[i] : i \in 1..Len(last.out.val)}
    ELSE {}

\* the always_color the caller of the last construction passed: the always
\* argument, or for a text operation the always_color of the receiver
AlwaysArgument ==
    IF last.self # <<>> THEN last.self[1].always_color ELSE last.args[3]

\* C19: a ColoredString constructed while CLINT_FORCE_COLOR is set to a
\* non-empty value, by ColoredString(), a color function, random() or a text
\* operation, has always_color true whatever the caller passed; one
\* constructed while the variable is absent has the always_color passed.
C19_ForceColor ==
    \A v \in Constructed :
        /\ ("CLINT_FORCE_COLOR" \in DOMAIN environ /\ environ["CLINT_FORCE_COLOR"] # "")
              => v.always_color
        /\ "CLINT_FORCE_COLOR" \notin DOMAIN environ
              => v.always_color = AlwaysArgument

\* red("hi") made with the variable absent, then upper() under
\* CLINT_FORCE_COLOR=0: the result has always_color true
C19_Witness ==
    /\ last.op = "upper"
    /\ "CLINT_FORCE_COLOR" \in DOMAIN environ
    /\ environ["CLINT_FORCE_COLOR"] = "0"
    /\ ~last.self[1].always_color
    /\ last.out.tag = "ColoredString"
    /\ last.out.val.always_color

(***************************************************************************)
(* disable() and enable(), under SpecRender.                               *)
(***************************************************************************)
\* C20: DISABLE_COLOR is what the last of the disable() and enable() calls
\* set and no other call changes it; a constructed ColoredString holds its
\* text, color, always_color and bold and nothing of the flag; and str() of a
\* value with always_color false is the wrapped text if stdout is a terminal
\* and the flag is not disabled at that moment, else the plain text, whatever
\* the flag was when the value was constructed.
C20_FlagReadAtRender ==
    /\ [][/\ last'.op = "disable" => DISABLE_COLOR' = "True"
          /\ last'.op = "enable" => DISABLE_COLOR' = "False"
          /\ last'.op \notin {"disable", "enable"} => DISABLE_COLOR' = DISABLE_COLOR]_vars
    /\ [](last.out.tag = "ColoredString"
            => DOMAIN last.out.val = {"s", "color", "always_color", "bold"})
    /\ []((last.op = "__str__" /\ ~last.self[1].always_color)
            => /\ last.out.tag = "str"
               /\ IF isatty /\ ~Disabled
                  THEN /\ HasPrefix(last.out.val, FORE_COLORS[Upper(last.self[1].color)])
                       /\ last.out.val # Str(last.self[1].s)
                  ELSE last.out.val = Str(last.self[1].s))

(***************************************************************************)
(* Rendering while TERM changes, with and without disable() and enable().  *)
(***************************************************************************)
NextDefault ==
    \/ \E always \in BOOLEAN : ColorFunction(RED, StrObj(hi), always, FALSE)
    \/ \E i \in Slots : Keep(i)
    \/ \E i \in Slots : Render(i)
    \/ Disable
    \/ Enable
    \/ ReplaceColors(EmptyValueDict)
    \/ ResetReplaceColors
    \/ \E value \in {"dumb", "xterm"} : SetEnv("TERM", value)
    \/ DelEnv("TERM")

SpecDefault == Init /\ [][NextDefault]_vars

TermIsDumb == "TERM" \in DOMAIN environ /\ environ["TERM"] = "dumb"

\* C21 as stated: while DISABLE_COLOR is unset a change of TERM after a
\* render leaves what rendering the same value gives unchanged, and so it
\* does once disable() or enable() has been called.
C21_DefaultComputedOnce ==
    [][(last.op = "__str__" /\ last'.op \in {"setenv", "delenv"})
       => \A v \in {last.self[1]} : color_str(v)' = last.out]_vars

\* C21: while DISABLE_COLOR is unset every render takes the default from
\* TERM and the caller's globals as they are at that render, so a change of
\* TERM after a render changes what rendering the same value gives exactly
\* when the flag is unset, stdout is a terminal, the caller is no IPython
\* session, the value has always_color false and a stored color that is a
\* fore-color key, and the change makes or unmakes TERM "dumb"; once
\* disable() or enable() has been called no change of TERM changes it.
C21_DefaultComputedAtEachRender ==
    [][(last.op = "__str__" /\ last'.op \in {"setenv", "delenv"})
       => \A v \in {last.self[1]} :
            color_str(v)' # last.out
            <=> /\ DISABLE_COLOR = "unset"
                /\ isatty
                /\ ~get_ipython
                /\ ~v.always_color
                /\ Upper(v.color) \in DOMAIN FORE_COLORS
                /\ TermIsDumb' # TermIsDumb]_vars

\* str(red("hi")) on a terminal gave the wrapped text, then TERM was set to
\* "dumb" with DISABLE_COLOR unset: the same value now renders as "hi"
C21_Witness ==
    /\ last.op = "setenv"
    /\ last.args = <<"TERM", "dumb">>
    /\ DISABLE_COLOR = "unset"
    /\ isatty /\ ~get_ipython
    /\ vals # <<>>
    /\ ~vals[1].always_color
    /\ color_str(vals[1]) = Plain("str", hi)

(***************************************************************************)
(* Operations of the source that ColoredString does not define.            *)
(***************************************************************************)
AttrNames ==
    {"get_bytes", "get_bytearray", "get_sequence", "get_frozenset", "get_set",
     "get_tuple", "get_dict", "get_object", "returns_none", "get_userstring",
     "nonexistent_method"}

NextGetattr ==
    \/ \E s \in {TestString(<<"a", "b">>), StrObj(hi)}, f \in Flags :
            ColorFunction(RED, s, f[1], f[2])
    \/ \E i \in Slots : Keep(i)
    \/ ReplaceColors(ChainDict)
    \/ ResetReplaceColors
    \/ SetEnv("CLINT_FORCE_COLOR", "1")
    \/ DelEnv("CLINT_FORCE_COLOR")
    \/ \E i \in Slots, att \in AttrNames : GetattrCall(i, att)

SpecGetattr == InitScript /\ [][NextGetattr]_vars

\* a ColoredString with the source x and the styling of v
Styled(v, x) ==
    [s |-> x, color |-> v.color, always_color |-> v.always_color, bold |-> v.bold]

\* C22: an operation the ColoredString does not define is called on the
\* source and its result comes back as: a new ColoredString with the same
\* styling for a text; the bytes or bytearray unchanged; a tuple, or for a
\* list a list, of new ColoredStrings of the same length and order; a set or
\* frozenset of new ColoredStrings; a mapping from new ColoredStrings to new
\* ColoredStrings; the result unchanged for anything else; and None when the
\* source has no such operation.
C22_ResultShape ==
    last.op = "__getattr__"
    => LET v == last.self[1]
           r == SourceCall(v.s, last.args[1])
       IN  CASE r.tag \in {"str", "UserString"} -> last.out = Returned(Styled(v, r.val))
             [] r.tag \in {"tuple", "list"} ->
                    last.out = Plain(r.tag, [i \in 1..Len(r.val) |-> Styled(v, r.val[i])])
             [] r.tag \in {"frozenset", "set"} ->
                    last.out = Plain(r.tag, {Styled(v, x) : x \in r.val})
             [] r.tag = "dict" ->
                    last.out = Plain("dict", {<<Styled(v, kv[1]), Styled(v, kv[2])>> :
                                                 kv \in r.val})
             [] OTHER -> last.out = r

(***************************************************************************)
(* The color a ColoredString stores, under Spec.                           *)
(***************************************************************************)
\* C23: every ColoredString a call returns, whatever the letter case of the
\* color name and whatever override table replace_colors accepted, stores a
\* color that is one of the seventeen upper-case FORE_COLORS keys.
C23_StoredColorInvariant ==
    /\ Cardinality(DOMAIN FORE_COLORS) = 17
    /\ \A v \in Constructed : v.color \in DOMAIN FORE_COLORS

\* C26: when the override table has an entry for the upper-cased form of the
\* color name a ColoredString is constructed with, in whatever letter case
\* the name is written, and the entry is a color, the value stores the
\* table's replacement.
C26_CaseInsensitiveOverride ==
    (/\ last.op \in ConstructorCalls
     /\ last.out.tag = "ColoredString"
     /\ Upper(last.args[1]) \in DOMAIN REPLACE_COLORS
     /\ REPLACE_COLORS[Upper(last.args[1])] \in DOMAIN FORE_COLORS)
    => last.out.val.color = REPLACE_COLORS[Upper(last.args[1])]

(***************************************************************************)
(* Rendering, length, iteration, containment, hashing, equality and        *)
(* concatenation of one kept value in every render state.                  *)
(***************************************************************************)
NextValue ==
    \/ \E always \in BOOLEAN : ColorFunction(RED, StrObj(hi), always, FALSE)
    \/ \E i \in Slots : Keep(i)
    \/ Disable
    \/ Enable
    \/ ReplaceColors(EmptyValueDict)
    \/ ResetReplaceColors
    \/ \E i \in Slots : Render(i)
    \/ \E i \in Slots : UpperCall(i)
    \/ \E i \in Slots : LenCall(i)
    \/ \E i \in Slots : IterCall(i)
    \/ \E i \in Slots : HashCall(i)
    \/ \E i \in Slots, key \in ObjectOperands : ContainsCall(i, key)
    \/ \E i \in Slots, other \in ObjectOperands : AddCall(i, other)
    \/ \E i \in Slots, other \in ObjectOperands : RAddCall(i, other)
    \/ \E i \in Slots, b \in ColoredOperands :
            CompareColored(i, "__eq__", b[1], StrObj(b[2]), b[3], b[4])
    \/ \E i \in Slots, value \in ObjectOperands : CompareCall(i, "__eq__", value)

SpecValue == InitCompare /\ [][NextValue]_vars

\* C24: no call but the caller's own rebinding of a variable changes the
\* source, color, always_color or bold of a ColoredString that exists: a text
\* operation returns a value and leaves its receiver as it was; rendering,
\* length, iteration, containment, comparison, hashing and concatenation
\* change neither a value nor a global; disable() and enable() change
\* DISABLE_COLOR alone, replace_colors() and reset_replace_colors()
\* REPLACE_COLORS alone; and rendering a value again right after it was
\* rendered gives the same outcome.
C24_Immutable ==
    [][/\ last'.op # "keep" => vals' = vals
       /\ last'.self # <<>>
            => /\ last'.self = <<vals'[1]>>
               /\ globals' = globals
       /\ last'.op = "upper"
            => (last'.out.tag = "ColoredString" \/ last'.out.tag = "raise")
       /\ last'.op \in {"disable", "enable"}
            => <<REPLACE_COLORS, environ, isatty, get_ipython>>'
                 = <<REPLACE_COLORS, environ, isatty, get_ipython>>
       /\ last'.op \in {"replace_colors", "reset_replace_colors"}
            => <<DISABLE_COLOR, environ, isatty, get_ipython>>'
                 = <<DISABLE_COLOR, environ, isatty, get_ipython>>
       /\ last'.op = "__str__"
            => \A v \in {last'.self[1]} : color_str(v)' = last'.out]_vars

\* red("hi").upper() returned a value with the text "HI" and the kept value
\* still has the text "hi"
C24_Witness ==
    /\ last.op = "upper"
    /\ last.out.tag = "ColoredString"
    /\ Str(last.out.val.s) = <<"H", "I">>
    /\ vals = last.self
    /\ Str(vals[1].s) = hi

\* the outcome of left + right for two outcomes evaluated left first
Joined(left, right) ==
    IF left.tag = "raise" THEN left
    ELSE IF right.tag = "raise" THEN right
    ELSE Plain("str", left.val \o right.val)

\* C25: v + x is the rendered text of v (v.color_str in the current render
\* state) followed by str(x), and x + v is str(x) followed by the rendered
\* text of v; the result is a str, not a ColoredString, and v is unchanged.
\* When the rendering or str(x) raises, the concatenation raises the same.
C25_Concatenation ==
    /\ last.op = "__add__"
         => /\ last.out = Joined(color_str(last.self[1]), PyStr(last.args[1]))
            /\ last.out.tag \in {"str", "raise"}
            /\ vals = last.self
    /\ last.op = "__radd__"
         => /\ last.out = Joined(PyStr(last.args[1]), color_str(last.self[1]))
            /\ last.out.tag \in {"str", "raise"}
            /\ vals = last.self

\* red("hi", always=True) + 12 is the wrapped "hi" followed by "12"
C25_Witness ==
    /\ last.op = "__add__"
    /\ last.self[1].always_color
    /\ last.args[1] = IntObj(12)
    /\ last.out = Plain("str", <<ESC, "[", "3", "1", "m", ESC, "[", "2", "2", "m", "h", "i",
                                 ESC, "[", "2", "2", "m", ESC, "[", "3", "9", "m", "1", "2">>)

(***************************************************************************)
(* Rendering of texts that already hold escape sequences: every text of at *)
(* most MaxTokens pieces, a piece being a whole sequence, a letter, a line *)
(* feed, an incomplete sequence or a sequence without its escape.          *)
(***************************************************************************)
MaxTokens == 5

NestTokens == {SGR(<<"3">>), <<"a">>, <<LF>>, <<ESC, "[">>, <<"[", "3", "m">>}

RECURSIVE Flat(_)
\* the pieces of ts one after the other
Flat(ts) == IF ts = <<>> THEN <<>> ELSE Head(ts) \o Flat(Tail(ts))

NestTexts == {Flat(ts) : ts \in UNION {[1..n -> NestTokens] : n \in 0..MaxTokens}}

\* the caller has a text s
InitNest ==
    /\ DISABLE_COLOR = "unset"
    /\ REPLACE_COLORS = EmptyDict
    /\ environ = <<>>
    /\ isatty = FALSE
    /\ get_ipython = FALSE
    /\ vals = <<>>
    /\ \E s \in NestTexts : last = Call("text", <<s>>, <<>>, Plain("None", None))

\* crayons.blue(s, always=always) for the caller's text
NestColor(always) ==
    /\ last.op = "text"
    /\ ColorFunction(BLUE, StrObj(last.args[1]), always, FALSE)

\* the caller binds the ColoredString the color function returned
NestKeep ==
    /\ last.op = "color_func"
    /\ last.out.tag = "ColoredString"
    /\ vals' = <<last.out.val>>
    /\ last' = Call("keep", <<1>>, <<>>, Plain("None", None))
    /\ UNCHANGED globals

NextNest ==
    \/ \E always \in BOOLEAN : NestColor(always)
    \/ NestKeep
    \/ Render(1)

SpecNest == InitNest /\ [][NextNest]_vars

\* a fully wrapped span at position i of t (two sequences, content that is
\* not empty and holds no escape, two sequences): the position after it,
\* or 0
SpanEnd(t, i) ==
    LET j == Seq2End(t, i)
        k == NextOf(t, j, {ESC})
    IN  IF j = 0 \/ k = j THEN 0 ELSE Seq2End(t, k)

RECURSIVE Rewrapped(_, _, _)
\* t from position i on, every fully wrapped span followed by code
Rewrapped(t, i, code) ==
    IF i > Len(t) THEN <<>>
    ELSE IF SpanEnd(t, i) # 0
         THEN SubSeq(t, i, SpanEnd(t, i) - 1) \o code \o Rewrapped(t, SpanEnd(t, i), code)
         ELSE <<t[i]>> \o Rewrapped(t, i + 1, code)

\* C27: when the wrapped form is emitted, every embedded fully wrapped span
\* of the text is kept verbatim and is followed at once by the value's own
\* fore-color and intensity codes, and all other text passes unmodified
\* between the outer prefix and suffix.
C27_NestedRewrap ==
    (last.op = "__str__" /\ last.self[1].always_color)
    => \A v \in {last.self[1]} :
         LET code == FORE_COLORS[v.color] \o STYLES["NORMAL"]
         IN  last.out = Plain("str", code \o Rewrapped(Str(v.s), 1, code)
                                     \o STYLES["NORMAL"] \o FORE_COLORS[RESET])

\* C28: v.format(*args, **kwargs) is a ColoredString whose underlying text is
\* x.format(*args, **kwargs) for the underlying text x of v: each positional
\* argument fills its own replacement field, each keyword argument is
\* available by name, and the call raises when the plain call raises.
C28_FormatForwardsArgs ==
    last.op = "format"
    => LET r == PyFormat(Str(last.self[1].s), last.args[1], last.args[2]) IN
       IF r.tag = "raise"
       THEN last.out.tag = "raise"
       ELSE last.out.tag = "ColoredString" /\ Str(last.out.val.s) = r.val

\* C29 as stated: in every render state the number of characters iterating v
\* yields equals len(v), and both equal the length of str(v).
C29_LengthAgreesWithIteration ==
    last.op = "__iter__"
    => \A v \in {last.self[1]} :
         /\ last.out.tag = "iterator"
         /\ Len(last.out.val) = len(v).val
         /\ color_str(v).tag = "str"
         /\ len(v).val = Len(color_str(v).val)

\* C29: iterating v yields the characters of the rendered text, so their
\* number is the length of str(v), and the iteration raises what str(v)
\* raises; len(v) is the length of the underlying plain text in every render
\* state.  The two agree when the rendering is the plain text and differ
\* when the wrapped form is emitted.
C29_IterationOverRendering ==
    /\ last.op = "__iter__"
         => \A v \in {last.self[1]} :
              IF color_str(v).tag = "raise" THEN last.out = color_str(v)
              ELSE /\ last.out.tag = "iterator"
                   /\ Len(last.out.val) = Len(color_str(v).val)
                   /\ Len(last.out.val) = len(v).val <=> ~Emits(v)
    /\ last.op = "__len__"
         => /\ last.out.tag = "int"
            /\ last.out.val = Len(Str(last.self[1].s))
            /\ (color_str(last.self[1]).tag = "str" /\ ~Emits(last.self[1]))
                 => last.out.val = Len(color_str(last.self[1]).val)

\* list(red("hi", always=True)) has the 22 characters of the wrapped text
C29_Witness ==
    /\ last.op = "__iter__"
    /\ last.out.tag = "iterator"
    /\ Len(last.out.val) = 22
    /\ len(last.self[1]).val = 2

\* a == b is true
Equal(a, b) == eq(a, b, IF IsColored(b) THEN Bool(FALSE) ELSE PyStr(b)) = Bool(TRUE)

\* hash(b) for a ColoredString or another object b
HashOf(b) ==
    IF IsColored(b) THEN hash(b)
    ELSE IF b.kind = "str" THEN StrHash(b.text)
    ELSE Plain("int", HashKey(b))

\* the ColoredStrings of ColoredOperands
ColoredValues ==
    {color_func(b[1], StrObj(b[2]), b[3], b[4]).val : b \in
        {c \in ColoredOperands :
            color_func(c[1], StrObj(c[2]), c[3], c[4]).tag = "ColoredString"}}

\* C30 as stated: a == b implies hash(a) == hash(b) for b a ColoredString or
\* a plain text, and a == t and t == c for a plain text t imply a == c.
C30_EqualityConsistentWithHash ==
    (last.op = "__eq__" /\ last.out = Bool(TRUE))
    => \A a \in {last.self[1]}, b \in {last.args[1]} :
         /\ hash(a) = HashOf(b)
         /\ (~IsColored(b) /\ b.kind = "str")
              => \A c \in ColoredValues : Equal(c, b) => Equal(a, c)

\* C30: for two ColoredStrings a == b implies hash(a) == hash(b), and == is
\* transitive among ColoredStrings; a == t for a plain text t says only that
\* the underlying text of a is t, so a == t and t == c imply that a and c
\* have the same underlying text.
C30_EqualityAndHashOfColored ==
    (last.op = "__eq__" /\ last.out = Bool(TRUE))
    => \A a \in {last.self[1]}, b \in {last.args[1]} :
         /\ IsColored(b)
              => /\ hash(a) = hash(b)
                 /\ \A c \in ColoredValues : Equal(b, c) => Equal(a, c)
         /\ (~IsColored(b) /\ b.kind = "str")
              => /\ Str(a.s) = b.text
                 /\ \A c \in ColoredValues : Equal(c, b) => Str(a.s) = Str(c.s)

\* red("hi") == red("hi") is true
C30_Witness ==
    /\ last.op = "__eq__"
    /\ IsColored(last.args[1])
    /\ last.out = Bool(TRUE)
    /\ Str(last.self[1].s) = hi

====
